---- MODULE Spec2Model ----
(***************************************************************************)
(* Model of two parts of rune:                                             *)
(*   - the access counter of runestick (crates/runestick/src/access.rs),   *)
(*   - the IR constant evaluator (crates/rune/src/compile/ir/eval.rs).     *)
(***************************************************************************)
EXTENDS Integers, Sequences, FiniteSets, TLC

VARIABLES access, guards, last, ir, interp, result, pc

vars == <<access, guards, last, ir, interp, result, pc>>

accessVars == <<access, guards, last>>

evalVars == <<ir, interp, result, pc>>

(***************************************************************************)
(* Machine words.  isize is modelled with WordBits bits, two's complement. *)
(***************************************************************************)
WordBits == 5

Pow2(n) == 2 ^ n

MinWord == 0 - Pow2(WordBits - 1)

MaxWord == Pow2(WordBits - 1) - 1

Word == MinWord .. MaxWord

\* Reduction of an integer to the two's complement range of isize.
WrapWord(x) == ((x - MinWord) % Pow2(WordBits)) + MinWord

wrapping_sub(a, b) == WrapWord(a - b)

wrapping_add(a, b) == WrapWord(a + b)

\* const TAKEN: isize = isize::max_value();
TAKEN == MaxWord

Abs(x) == IF x < 0 THEN 0 - x ELSE x

\* impl fmt::Display for Snapshot: the arm of the match that writes the text,
\* and the number written with it.  -n overflows for the least isize.
Display(snapshot) ==
    IF snapshot = 0 THEN [text |-> "fully accessible"]
    ELSE IF snapshot = 1 THEN [text |-> "exclusively accessed"]
    ELSE IF snapshot = TAKEN THEN [text |-> "moved"]
    ELSE IF snapshot < 0
    THEN [text |-> "shared by", n |-> WrapWord(0 - snapshot), overflow |-> snapshot = MinWord]
    ELSE [text |-> "invalidly marked", n |-> snapshot]

(***************************************************************************)
(* Access: the operations on the counter.  Each returns the Result and the *)
(* value the cell holds afterwards.                                        *)
(***************************************************************************)
shared_off_by_one(state) ==
    LET n == wrapping_sub(state, 1)
    IN  IF n > 0
        THEN [ok |-> FALSE, error |-> "NotAccessibleRef", snapshot |-> state, state |-> state]
        ELSE [ok |-> TRUE, guard |-> "RawBorrowedRef", state |-> n]

shared_unchecked(state) ==
    LET n == wrapping_sub(state, 1)
    IN  [ok |-> TRUE, guard |-> "RawBorrowedRef", state |-> n]

shared(state) ==
    LET n == wrapping_sub(state, 1)
    IN  IF n >= 0
        THEN [ok |-> FALSE, error |-> "NotAccessibleRef", snapshot |-> state, state |-> state]
        ELSE [ok |-> TRUE, guard |-> "RawBorrowedRef", state |-> n]

exclusive_unordered(state) ==
    LET n == wrapping_add(state, 1)
    IN  IF n < 1
        THEN [ok |-> FALSE, error |-> "NotAccessibleMut", snapshot |-> state, state |-> state]
        ELSE [ok |-> TRUE, guard |-> "RawBorrowedMut", state |-> 1]

exclusive_snapshot_after(state) ==
    LET n == wrapping_add(state, 1)
    IN  IF n # 1
        THEN [ok |-> FALSE, error |-> "NotAccessibleMut", snapshot |-> n, state |-> state]
        ELSE [ok |-> TRUE, guard |-> "RawBorrowedMut", state |-> n]

exclusive(state) ==
    LET n == wrapping_add(state, 1)
    IN  IF n # 1
        THEN [ok |-> FALSE, error |-> "NotAccessibleMut", snapshot |-> state, state |-> state]
        ELSE [ok |-> TRUE, guard |-> "RawBorrowedMut", state |-> n]

take_as_exclusive(state) ==
    IF state # 0
    THEN [ok |-> FALSE, error |-> "NotAccessibleTake", snapshot |-> state, state |-> state]
    ELSE [ok |-> TRUE, guard |-> "RawTakeGuard", state |-> 1]

take_below_max(state) ==
    IF state # 0
    THEN [ok |-> FALSE, error |-> "NotAccessibleTake", snapshot |-> state, state |-> state]
    ELSE [ok |-> TRUE, guard |-> "RawTakeGuard", state |-> TAKEN - 1]

take(state) ==
    IF state # 0
    THEN [ok |-> FALSE, error |-> "NotAccessibleTake", snapshot |-> state, state |-> state]
    ELSE [ok |-> TRUE, guard |-> "RawTakeGuard", state |-> TAKEN]

release_shared_twice(state) == wrapping_add(state, 2)

release_shared(state) == wrapping_add(state, 1)

release_exclusive_up(state) == wrapping_add(state, 1)

release_exclusive(state) == wrapping_sub(state, 1)

release_take(state) == 0

\* The debug_assert! of release_shared, release_exclusive and release_take,
\* for a guard of the given type that is dropped when the counter is state.
debug_assert(g, state) ==
    CASE g \in {"RawBorrowedRef", "BorrowRef"} -> release_shared(state) <= 0
      [] g \in {"RawBorrowedMut", "BorrowMut"} -> release_exclusive(state) = 0
      [] g = "RawTakeGuard" -> state = TAKEN

(***************************************************************************)
(* Guards.  guards counts the guards that are alive, by type.  A BorrowRef *)
(* owns a RawBorrowedRef and a BorrowMut owns a RawBorrowedMut; dropping   *)
(* the owner drops the raw guard.                                          *)
(***************************************************************************)
GuardTypes == {"RawBorrowedRef", "BorrowRef", "RawBorrowedMut", "BorrowMut", "RawTakeGuard"}

NoGuards == [g \in GuardTypes |-> 0]

Acquire(gs, g) == [gs EXCEPT ![g] = @ + 1]

Forget(gs, g) == [gs EXCEPT ![g] = @ - 1]

\* The release a guard of the given type runs when it is dropped.
DropGuard(g, state) ==
    CASE g \in {"RawBorrowedRef", "BorrowRef"} -> release_shared(state)
      [] g \in {"RawBorrowedMut", "BorrowMut"} -> release_exclusive(state)
      [] g = "RawTakeGuard" -> release_take(state)

SharedOutstanding(gs) == gs["RawBorrowedRef"] + gs["BorrowRef"]

ExclusiveOutstanding(gs) == gs["RawBorrowedMut"] + gs["BorrowMut"]

TakeOutstanding(gs) == gs["RawTakeGuard"]

Outstanding(gs) == SharedOutstanding(gs) + ExclusiveOutstanding(gs) + TakeOutstanding(gs)

\* Access::new()
AccessNew == 0

NoCall == [op |-> "new", pre |-> AccessNew, held |-> NoGuards, ok |-> TRUE]

\* The record of a call of shared(), exclusive() or take().
Attempt(op, r) ==
    IF r.ok
    THEN [op |-> op, pre |-> access, held |-> guards, ok |-> TRUE]
    ELSE [op |-> op, pre |-> access, held |-> guards, ok |-> FALSE,
          error |-> r.error, snapshot |-> r.snapshot]

Done(op, g) == [op |-> op, g |-> g, pre |-> access, held |-> guards, ok |-> TRUE]

EvalIdle ==
    /\ ir = <<>>
    /\ interp = <<>>
    /\ result = <<>>
    /\ pc = "idle"

CallAccess(op, r) ==
    /\ access' = r.state
    /\ guards' = IF r.ok THEN Acquire(guards, r.guard) ELSE guards
    /\ last' = Attempt(op, r)
    /\ UNCHANGED evalVars

Shared == CallAccess("shared", shared(access))

Exclusive == CallAccess("exclusive", exclusive(access))

Take == CallAccess("take", take(access))

\* drop of a guard of type g
Drop(g) ==
    /\ guards[g] > 0
    /\ access' = DropGuard(g, access)
    /\ guards' = Forget(guards, g)
    /\ last' = Done("drop", g)
    /\ UNCHANGED evalVars

DropRawBorrowedRef == Drop("RawBorrowedRef")

DropBorrowRef == Drop("BorrowRef")

DropRawBorrowedMut == Drop("RawBorrowedMut")

DropBorrowMut == Drop("BorrowMut")

DropRawTakeGuard == Drop("RawTakeGuard")

\* BorrowRef::from_raw and BorrowMut::from_raw: the raw guard moves into the
\* borrow.
FromRaw(raw, borrow) ==
    /\ guards[raw] > 0
    /\ guards' = Acquire(Forget(guards, raw), borrow)
    /\ last' = Done("from_raw", borrow)
    /\ UNCHANGED <<access, evalVars>>

BorrowRefFromRaw == FromRaw("RawBorrowedRef", "BorrowRef")

BorrowMutFromRaw == FromRaw("RawBorrowedMut", "BorrowMut")

\* try_map(this, m): when m fails, `?` returns and `this`, guard included, is
\* dropped; when m succeeds the guard moves into the borrow that is returned.
try_map_leak(borrow, mOk, gs, state) ==
    IF mOk
    THEN [ok |-> TRUE, guards |-> Acquire(Forget(gs, borrow), borrow), state |-> state]
    ELSE [ok |-> FALSE, guards |-> Forget(gs, borrow), state |-> state]

try_map(borrow, mOk, gs, state) ==
    IF mOk
    THEN [ok |-> TRUE, guards |-> Acquire(Forget(gs, borrow), borrow), state |-> state]
    ELSE [ok |-> FALSE, guards |-> Forget(gs, borrow), state |-> DropGuard(borrow, state)]

TryMap(borrow, op) ==
    /\ guards[borrow] > 0
    /\ \E mOk \in BOOLEAN :
          LET r == try_map(borrow, mOk, guards, access)
          IN  /\ access' = r.state
              /\ guards' = r.guards
              /\ last' = [op |-> op, g |-> borrow, pre |-> access, held |-> guards, ok |-> r.ok]
    /\ UNCHANGED evalVars

BorrowRefTryMap == TryMap("BorrowRef", "try_map_ref")

BorrowMutTryMap == TryMap("BorrowMut", "try_map_mut")

InitAccess ==
    /\ access = AccessNew
    /\ guards = NoGuards
    /\ last = NoCall
    /\ EvalIdle

NextAccess ==
    \/ Shared
    \/ Exclusive
    \/ Take
    \/ DropRawBorrowedRef
    \/ DropBorrowRef
    \/ DropRawBorrowedMut
    \/ DropBorrowMut
    \/ DropRawTakeGuard
    \/ BorrowRefFromRaw
    \/ BorrowMutFromRaw
    \/ BorrowRefTryMap
    \/ BorrowMutTryMap

SpecAccess == InitAccess /\ [][NextAccess]_vars

(***************************************************************************)
(* The three acquisitions as functions of an arbitrary counter value.      *)
(***************************************************************************)
InitAccessFn ==
    /\ access \in Word
    /\ guards = NoGuards
    /\ last = [op |-> "new", pre |-> access, held |-> NoGuards, ok |-> TRUE]
    /\ EvalIdle

FnCall(op, r) ==
    /\ last.op = "new"
    /\ CallAccess(op, r)

FnShared == FnCall("shared", shared(access))

FnExclusive == FnCall("exclusive", exclusive(access))

FnTake == FnCall("take", take(access))

NextAccessFn ==
    \/ FnShared
    \/ FnExclusive
    \/ FnTake

SpecAccessFn == InitAccessFn /\ [][NextAccessFn]_vars

(***************************************************************************)
(* IrValue, Ir and IrEvalOutcome.                                          *)
(***************************************************************************)
Unit == [t |-> "Unit"]

Bool(b) == [t |-> "Bool", bool |-> b]

Integer(i) == [t |-> "Integer", integer |-> i]

RECURSIVE GCD(_, _)
GCD(a, b) == IF b = 0 THEN a ELSE GCD(b, a % b)

\* An f64 is a sign and a fraction in lowest terms: den = 0 is an infinity
\* when num = 1 and NaN when num = 0; zero keeps its sign.  Rounding and
\* overflow are not modelled: the floats of the model and the results of one
\* operation on them are powers of two, which an f64 holds exactly.
F64(neg, num, den) ==
    LET g == GCD(num, den)
    IN  IF g = 0
        THEN [neg |-> FALSE, num |-> 0, den |-> 0]
        ELSE [neg |-> neg, num |-> num \div g, den |-> den \div g]

NaN == F64(FALSE, 0, 0)

IsNaN(f) == f.num = 0 /\ f.den = 0

IsInf(f) == f.num # 0 /\ f.den = 0

\* The numerator with the sign.
Signed(f) == IF f.neg THEN 0 - f.num ELSE f.num

Float(f) == [t |-> "Float", float |-> f]

\* IrValue::String(Shared<String>): the string and the access counter of the
\* Shared cell that holds it.
SharedString(str, state) == [t |-> "String", string |-> str, access |-> state]

\* Shared::new(str)
String(str) == SharedString(str, 0)

\* IrValue::Vec(Shared::new(vec))
Vec(items) == [t |-> "Vec", vec |-> items]

\* IrValue::Tuple(Shared::new(items.into_boxed_slice()))
Tuple(items) == [t |-> "Tuple", tuple |-> items]

\* IrValue::Object(Shared::new(object)): the map from the keys to the values
Object(map) == [t |-> "Object", object |-> map]

\* Option::None of ir.last, ir.default_branch, ir.condition and ir.label
NoIr == [kind |-> "None"]

NoCondition == [c |-> "None"]

NoLabel == [some |-> FALSE]

Label(l) == [some |-> TRUE, label |-> l]

IrValue(v) == [kind |-> "Value", value |-> v]

IrName(name) == [kind |-> "Name", name |-> name]

IrScope(instructions, lastIr) ==
    [kind |-> "Scope", instructions |-> instructions, last |-> lastIr]

IrBinary(op, lhs, rhs) == [kind |-> "Binary", op |-> op, lhs |-> lhs, rhs |-> rhs]

IrDecl(name, value) == [kind |-> "Decl", name |-> name, value |-> value]

IrBranches(branches, default_branch) ==
    [kind |-> "Branches", branches |-> branches, default_branch |-> default_branch]

IrLoop(label, condition, body) ==
    [kind |-> "Loop", label |-> label, condition |-> condition, body |-> body]

IrBreak(label, value) == [kind |-> "Break", label |-> label, value |-> value]

IrConditionIr(n) == [c |-> "Ir", ir |-> n]

\* IrCondition::Let(IrLet { pat, ir })
IrConditionLet(pat, n) == [c |-> "Let", pat |-> pat, ir |-> n]

\* The patterns of a conditional let: a binding, a literal and the wildcard.
PatIdent(name) == [p |-> "Ident", name |-> name]

PatLit(v) == [p |-> "Lit", lit |-> v]

PatWildcard == [p |-> "Wildcard"]

IrSet(target, value) == [kind |-> "Set", target |-> target, value |-> value]

IrAssign(target, op, value) ==
    [kind |-> "Assign", target |-> target, op |-> op, value |-> value]

\* IrTemplateComponent::String(string) and IrTemplateComponent::Ir(ir)
IrTemplateString(str) == [c |-> "String", string |-> str]

IrTemplateIr(n) == [c |-> "Ir", ir |-> n]

IrTemplate(components) == [kind |-> "Template", components |-> components]

IrVec(items) == [kind |-> "Vec", items |-> items]

IrTuple(items) == [kind |-> "Tuple", items |-> items]

\* assignments is the list of the pairs <<key, value>>
IrObject(assignments) == [kind |-> "Object", assignments |-> assignments]

IrCall(target, args) == [kind |-> "Call", target |-> target, args |-> args]

\* Ok(value)
Ok(v) == [ok |-> TRUE, value |-> v]

\* Err(IrEvalOutcome::NotConst(span))
NotConst(span) == [ok |-> FALSE, outcome |-> "NotConst", span |-> span]

\* Err(IrEvalOutcome::Error(IrError::msg(span, msg)))
Error(span, msg) == [ok |-> FALSE, outcome |-> "Error", span |-> span, msg |-> msg]

\* Err(IrEvalOutcome::Break(span, b))
Break(span, b) == [ok |-> FALSE, outcome |-> "Break", span |-> span, b |-> b]

Inherent == [b |-> "Inherent"]

BreakValue(v) == [b |-> "Value", value |-> v]

BreakLabel(l) == [b |-> "Label", label |-> l]

\* What a Result is: "Ok", "NotConst", "Error" or "Break".
OutcomeOf(r) == IF r.ok THEN "Ok" ELSE r.outcome

(***************************************************************************)
(* IrInterpreter: the scope stack, the budget, and the record of what the  *)
(* evaluation did (trace).  A span is the path of the node in the tree.    *)
(***************************************************************************)
Log(st, e) == [st EXCEPT !.trace = Append(@, e)]

\* interp.budget.take(span)
budget_take(st, span) ==
    IF st.budget = 0
    THEN [ok |-> FALSE, err |-> Error(span, "constant evaluation budget exceeded"),
          st |-> Log(st, [ev |-> "take", span |-> span, ok |-> FALSE])]
    ELSE [ok |-> TRUE,
          st |-> Log([st EXCEPT !.budget = @ - 1], [ev |-> "take", span |-> span, ok |-> TRUE])]

EmptyFrame == <<>>

\* interp.scopes.push(): the guard is the depth before the push.  names are
\* the names that are bound when the frame is pushed.
scopes_push(st) ==
    [guard |-> Len(st.scopes),
     st |-> Log([st EXCEPT !.scopes = Append(@, EmptyFrame)],
                [ev |-> "push", guard |-> Len(st.scopes),
                 names |-> UNION {DOMAIN st.scopes[i] : i \in DOMAIN st.scopes}])]

\* interp.scopes.pop(span, guard): pops the top frame; it is an error when
\* there is none or when the frame was not the one the guard was given for.
scopes_pop(st, span, guard) ==
    IF Len(st.scopes) = 0
    THEN [ok |-> FALSE, err |-> Error(span, "expected at least one scope to pop"),
          st |-> Log(st, [ev |-> "pop", guard |-> guard, depth |-> 0, ok |-> FALSE])]
    ELSE LET popped == [st EXCEPT !.scopes = SubSeq(@, 1, Len(@) - 1)]
             matches == Len(popped.scopes) = guard
             logged == Log(popped, [ev |-> "pop", guard |-> guard,
                                    depth |-> Len(popped.scopes), ok |-> matches])
         IN  IF matches
             THEN [ok |-> TRUE, st |-> logged]
             ELSE [ok |-> FALSE, err |-> Error(span, "scope length mismatch"), st |-> logged]

\* interp.scopes.clear_current(span)
scopes_clear_current(st, span) ==
    IF Len(st.scopes) = 0
    THEN [ok |-> FALSE, err |-> Error(span, "expected at least one scope"), st |-> st]
    ELSE [ok |-> TRUE,
          st |-> Log([st EXCEPT !.scopes[Len(st.scopes)] = EmptyFrame],
                     [ev |-> "clear", span |-> span, depth |-> Len(st.scopes)])]

\* interp.scopes.decl(name, value, span)
scopes_decl(st, name, value, span) ==
    IF Len(st.scopes) = 0
    THEN [ok |-> FALSE, err |-> Error(span, "expected at least one scope"), st |-> st]
    ELSE LET frame == st.scopes[Len(st.scopes)]
             bound == [x \in (DOMAIN frame) \cup {name} |->
                          IF x = name THEN value ELSE frame[x]]
         IN  [ok |-> TRUE, st |-> [st EXCEPT !.scopes[Len(st.scopes)] = bound]]

\* The innermost frame that binds the name, 0 when there is none.
RECURSIVE Lookup(_, _, _)
Lookup(scopes, name, i) ==
    IF i = 0 THEN 0
    ELSE IF name \in DOMAIN scopes[i] THEN i
    ELSE Lookup(scopes, name, i - 1)

\* interp.resolve_var(span, name, used)
resolve_var(st, span, name) ==
    LET i == Lookup(st.scopes, name, Len(st.scopes))
    IN  IF i = 0
        THEN Error(span, "missing local")
        ELSE Ok(st.scopes[i][name])

\* interp.scopes.set_target(target, value), for a target that is a name: the
\* innermost binding of the name is written.
scopes_set_target(st, target, value, span) ==
    LET i == Lookup(st.scopes, target, Len(st.scopes))
    IN  IF i = 0
        THEN [ok |-> FALSE, err |-> Error(span, "missing target"), st |-> st]
        ELSE [ok |-> TRUE, st |-> [st EXCEPT !.scopes[i][target] = value]]

\* ir_let.pat.matches(interp, value, ir): the names of the pattern are
\* declared in the current frame when the value matches.
pat_matches(st, pat, value, span) ==
    CASE pat.p = "Ident" ->
           LET d == scopes_decl(st, pat.name, value, span)
           IN  IF ~d.ok THEN [ok |-> FALSE, err |-> d.err, st |-> d.st]
               ELSE [ok |-> TRUE, bool |-> TRUE, st |-> d.st]
      [] pat.p = "Lit" -> [ok |-> TRUE, bool |-> value = pat.lit, st |-> st]
      [] pat.p = "Wildcard" -> [ok |-> TRUE, bool |-> TRUE, st |-> st]

\* interp.call_const_fn(ir, target, args, used): the constant function
\* "first" gives its first argument, and Unit without one; no other function
\* is registered.
call_const_fn(st, span, target, args) ==
    LET called == Log(st, [ev |-> "call", span |-> span, target |-> target, args |-> args])
    IN  IF target = "first"
        THEN [r |-> Ok(IF Len(args) = 0 THEN Unit ELSE args[1]), st |-> called]
        ELSE [r |-> NotConst(span), st |-> called]

\* as_bool(span, value)
as_bool(span, value) ==
    IF value.t = "Bool"
    THEN [ok |-> TRUE, bool |-> value.bool]
    ELSE [ok |-> FALSE, err |-> Error(span, "expected bool")]

\* The record of a return of one of the eval functions: the depth of the
\* scope stack and the budget at entry and at return, and the Result.
Return(fn, span, st0, res) ==
    [r |-> res.r,
     st |-> Log(res.st, [ev |-> "return", fn |-> fn, span |-> span,
                         entry |-> Len(st0.scopes), exit |-> Len(res.st.scopes),
                         before |-> st0.budget, after |-> res.st.budget,
                         r |-> res.r])]

\* The record of a call of eval_ir.
Enter(fn, span, st) ==
    Log(st, [ev |-> "enter", fn |-> fn, span |-> span, budget |-> st.budget])

(***************************************************************************)
(* The evaluator.  Every function takes the node, its span and the         *)
(* interpreter, and returns the Result (r) and the interpreter (st).       *)
(***************************************************************************)
\* u32 is modelled with ShiftBits bits.
ShiftBits == 3

U32Max == Pow2(ShiftBits) - 1

\* Euclidean quotient towards zero, as checked_div of the integer type.
TruncDiv(a, b) ==
    IF (a >= 0) = (b > 0)
    THEN Abs(a) \div Abs(b)
    ELSE 0 - (Abs(a) \div Abs(b))

\* a + b of f64
f64_add(a, b) ==
    IF IsNaN(a) \/ IsNaN(b) THEN NaN
    ELSE IF IsInf(a) /\ IsInf(b) THEN (IF a.neg = b.neg THEN a ELSE NaN)
    ELSE IF IsInf(a) THEN a
    ELSE IF IsInf(b) THEN b
    ELSE LET n == Signed(a) * b.den + Signed(b) * a.den
         IN  IF n = 0
             THEN F64(a.neg /\ b.neg, 0, 1)
             ELSE F64(n < 0, Abs(n), a.den * b.den)

\* a - b of f64
f64_sub(a, b) ==
    f64_add(a, IF IsNaN(b) THEN b ELSE [b EXCEPT !.neg = ~@])

\* a * b of f64
f64_mul(a, b) ==
    IF IsNaN(a) \/ IsNaN(b) THEN NaN
    ELSE F64(a.neg # b.neg, a.num * b.num, a.den * b.den)

\* a / b of f64: a division by zero is an infinity or NaN, never an error.
f64_div(a, b) ==
    IF IsNaN(a) \/ IsNaN(b) THEN NaN
    ELSE F64(a.neg # b.neg, a.num * b.den, a.den * b.num)

\* a < b of f64
f64_lt(a, b) ==
    /\ ~IsNaN(a)
    /\ ~IsNaN(b)
    /\ IF IsInf(a) /\ IsInf(b)
       THEN a.neg /\ ~b.neg
       ELSE Signed(a) * b.den < Signed(b) * a.den

\* a == b of f64: NaN equals nothing, the two zeros are equal.
f64_eq(a, b) ==
    /\ ~IsNaN(a)
    /\ ~IsNaN(b)
    /\ IF IsInf(a) /\ IsInf(b)
       THEN a.neg = b.neg
       ELSE Signed(a) * b.den = Signed(b) * a.den

\* add_strings(span, a, b): both cells are borrowed shared (borrow_ref), the
\* guards are dropped on return.
add_strings(span, a, b) ==
    LET ra == shared(a.access)
    IN  IF ~ra.ok THEN Error(span, ra.error)
        ELSE
    LET rb == shared(IF a = b THEN ra.state ELSE b.access)
    IN  IF ~rb.ok THEN Error(span, rb.error)
        ELSE Ok(String(a.string \o b.string))

u32_try_from_exclusive(y) == y >= 0 /\ y < U32Max

\* u32::try_from(b).is_ok()
u32_try_from(y) == y >= 0 /\ y <= U32Max

checked_div_not_const(x, y, span) ==
    IF y = 0
    THEN NotConst(span)
    ELSE Ok(Integer(TruncDiv(x, y)))

\* a.checked_div(&b).ok_or_else(|| IrError::msg(span, "division by zero"))
checked_div(x, y, span) ==
    IF y = 0
    THEN Error(span, "division by zero")
    ELSE Ok(Integer(TruncDiv(x, y)))

\* The arm (IrValue::Integer(a), IrValue::Integer(b)) of eval_ir_binary.
integer_match(op, x, y, span, rhsSpan) ==
    CASE op = "Add" -> Ok(Integer(x + y))
      [] op = "Sub" -> Ok(Integer(x - y))
      [] op = "Mul" -> Ok(Integer(x * y))
      [] op = "Div" -> checked_div(x, y, span)
      [] op = "Shl" -> IF ~u32_try_from(y)
                       THEN Error(rhsSpan, "cannot be converted to shift operand")
                       ELSE Ok(Integer(x * Pow2(y)))
      [] op = "Shr" -> IF ~u32_try_from(y)
                       THEN Error(rhsSpan, "cannot be converted to shift operand")
                       ELSE Ok(Integer(x \div Pow2(y)))
      [] op = "Lt" -> Ok(Bool(x < y))
      [] op = "Lte" -> Ok(Bool(x <= y))
      [] op = "Eq" -> Ok(Bool(x = y))
      [] op = "Gt" -> Ok(Bool(x > y))
      [] op = "Gte" -> Ok(Bool(x >= y))

float_match_shift_error(op, x, y, span) ==
    CASE op = "Add" -> Ok(Float(f64_add(x, y)))
      [] op = "Sub" -> Ok(Float(f64_sub(x, y)))
      [] op = "Mul" -> Ok(Float(f64_mul(x, y)))
      [] op = "Div" -> Ok(Float(f64_div(x, y)))
      [] op = "Lt" -> Ok(Bool(f64_lt(x, y)))
      [] op = "Lte" -> Ok(Bool(f64_lt(x, y) \/ f64_eq(x, y)))
      [] op = "Eq" -> Ok(Bool(f64_eq(x, y)))
      [] op = "Gt" -> Ok(Bool(f64_lt(y, x)))
      [] op = "Gte" -> Ok(Bool(f64_lt(y, x) \/ f64_eq(x, y)))
      [] OTHER -> Error(span, "cannot be converted to shift operand")

\* The arm (IrValue::Float(a), IrValue::Float(b)) of eval_ir_binary: the
\* shifts fall through to NotConst.
float_match(op, x, y, span) ==
    CASE op = "Add" -> Ok(Float(f64_add(x, y)))
      [] op = "Sub" -> Ok(Float(f64_sub(x, y)))
      [] op = "Mul" -> Ok(Float(f64_mul(x, y)))
      [] op = "Div" -> Ok(Float(f64_div(x, y)))
      [] op = "Lt" -> Ok(Bool(f64_lt(x, y)))
      [] op = "Lte" -> Ok(Bool(f64_lt(x, y) \/ f64_eq(x, y)))
      [] op = "Eq" -> Ok(Bool(f64_eq(x, y)))
      [] op = "Gt" -> Ok(Bool(f64_lt(y, x)))
      [] op = "Gte" -> Ok(Bool(f64_lt(y, x) \/ f64_eq(x, y)))
      [] OTHER -> NotConst(span)

\* The match on (a, b) and ir.op of eval_ir_binary.
BinaryOp(op, a, b, span, rhsSpan) ==
    IF a.t = "Integer" /\ b.t = "Integer"
    THEN integer_match(op, a.integer, b.integer, span, rhsSpan)
    ELSE IF a.t = "Float" /\ b.t = "Float"
    THEN float_match(op, a.float, b.float, span)
    ELSE IF a.t = "String" /\ b.t = "String" /\ op = "Add"
    THEN add_strings(span, a, b)
    ELSE NotConst(span)

loop_match_value_always(n, outcome) ==
    IF outcome.outcome = "Break"
    THEN CASE outcome.b.b = "Inherent" -> [break |-> TRUE, how |-> "Inherent"]
           [] outcome.b.b = "Label" ->
                IF n.label = Label(outcome.b.label)
                THEN [break |-> TRUE, how |-> "Label"]
                ELSE [break |-> FALSE, how |-> "Reraise",
                      r |-> Break(outcome.span, BreakLabel(outcome.b.label))]
           [] outcome.b.b = "Value" ->
                [break |-> FALSE, how |-> "Value", r |-> Ok(outcome.b.value)]
    ELSE [break |-> FALSE, how |-> outcome.outcome, r |-> outcome]

loop_match_value_unit(n, outcome) ==
    IF outcome.outcome = "Break"
    THEN CASE outcome.b.b = "Inherent" -> [break |-> TRUE, how |-> "Inherent"]
           [] outcome.b.b = "Label" ->
                IF n.label = Label(outcome.b.label)
                THEN [break |-> TRUE, how |-> "Label"]
                ELSE [break |-> FALSE, how |-> "Reraise",
                      r |-> Break(outcome.span, BreakLabel(outcome.b.label))]
           [] outcome.b.b = "Value" ->
                IF n.condition = NoCondition
                THEN [break |-> FALSE, how |-> "Value", r |-> Ok(Unit)]
                ELSE [break |-> FALSE, how |-> "Value",
                      r |-> Error(outcome.span,
                                  "break with value is not supported for unconditional loops")]
    ELSE [break |-> FALSE, how |-> outcome.outcome, r |-> outcome]

loop_match_error_breaks(n, outcome) ==
    IF outcome.outcome = "Break"
    THEN CASE outcome.b.b = "Inherent" -> [break |-> TRUE, how |-> "Inherent"]
           [] outcome.b.b = "Label" ->
                IF n.label = Label(outcome.b.label)
                THEN [break |-> TRUE, how |-> "Label"]
                ELSE [break |-> FALSE, how |-> "Reraise",
                      r |-> Break(outcome.span, BreakLabel(outcome.b.label))]
           [] outcome.b.b = "Value" ->
                IF n.condition = NoCondition
                THEN [break |-> FALSE, how |-> "Value", r |-> Ok(outcome.b.value)]
                ELSE [break |-> FALSE, how |-> "Value",
                      r |-> Error(outcome.span,
                                  "break with value is not supported for unconditional loops")]
    ELSE [break |-> FALSE, how |-> outcome.outcome, r |-> Ok(Unit)]

\* The match on the Err(outcome) of the body in eval_ir_loop: whether the
\* loop breaks, and the Result it returns when it does not.
loop_match(n, outcome) ==
    IF outcome.outcome = "Break"
    THEN CASE outcome.b.b = "Inherent" -> [break |-> TRUE, how |-> "Inherent"]
           [] outcome.b.b = "Label" ->
                IF n.label = Label(outcome.b.label)
                THEN [break |-> TRUE, how |-> "Label"]
                ELSE [break |-> FALSE, how |-> "Reraise",
                      r |-> Break(outcome.span, BreakLabel(outcome.b.label))]
           [] outcome.b.b = "Value" ->
                IF n.condition = NoCondition
                THEN [break |-> FALSE, how |-> "Value", r |-> Ok(outcome.b.value)]
                ELSE [break |-> FALSE, how |-> "Value",
                      r |-> Error(outcome.span,
                                  "break with value is not supported for unconditional loops")]
    ELSE [break |-> FALSE, how |-> outcome.outcome, r |-> outcome]

RECURSIVE eval_ir(_, _, _)
RECURSIVE eval_ir_binary(_, _, _)
RECURSIVE eval_ir_branches(_, _, _)
RECURSIVE eval_ir_branch(_, _, _, _)
RECURSIVE eval_ir_condition(_, _, _)
RECURSIVE eval_ir_decl(_, _, _)
RECURSIVE eval_ir_loop(_, _, _)
RECURSIVE eval_ir_loop_iteration(_, _, _, _)
RECURSIVE eval_ir_scope(_, _, _)
RECURSIVE eval_ir_instructions(_, _, _, _)
RECURSIVE as_outcome(_, _, _)
RECURSIVE eval_ir_set(_, _, _)
RECURSIVE eval_ir_assign(_, _, _)
RECURSIVE eval_ir_template(_, _, _)
RECURSIVE eval_ir_components(_, _, _, _, _)
RECURSIVE eval_ir_items(_, _, _, _, _)
RECURSIVE eval_ir_vec(_, _, _)
RECURSIVE eval_ir_tuple(_, _, _)
RECURSIVE eval_ir_object(_, _, _)
RECURSIVE eval_ir_call(_, _, _)
RECURSIVE eval_ir_kind(_, _, _)

eval_ir_binary(n, span, st) ==
    Return("eval_ir_binary", span, st,
    LET t == budget_take(st, span)
    IN  IF ~t.ok THEN [r |-> t.err, st |-> t.st]
        ELSE
    LET a == eval_ir(n.lhs, Append(span, 1), t.st)
    IN  IF ~a.r.ok THEN a
        ELSE
    LET b == eval_ir(n.rhs, Append(span, 2), a.st)
    IN  IF ~b.r.ok THEN b
        ELSE
    LET r == BinaryOp(n.op, a.r.value, b.r.value, span, Append(span, 2))
    IN  [r |-> r,
         st |-> Log(b.st, [ev |-> "binary", span |-> span, op |-> n.op,
                           a |-> a.r.value, b |-> b.r.value, r |-> r])])

eval_ir_condition(c, span, st) ==
    LET Condition(res) ==
            [r |-> res.r,
             st |-> Log(res.st, [ev |-> "condition", span |-> span, r |-> res.r,
                                 depth |-> Len(res.st.scopes)])]
        on_bool(v, b) ==
            IF ~b.ok THEN [r |-> b.err, st |-> v.st]
            ELSE [r |-> Ok(Bool(b.bool)), st |-> v.st]
        on_value(v) ==
            IF ~v.r.ok THEN v
            ELSE on_bool(v, as_bool(span, v.r.value))
        on_match(m) ==
            IF ~m.ok THEN [r |-> m.err, st |-> m.st]
            ELSE [r |-> Ok(Bool(m.bool)), st |-> m.st]
        on_let_value(v) ==
            IF ~v.r.ok THEN v
            ELSE on_match(pat_matches(v.st, c.pat, v.r.value, span))
    IN  Condition(IF c.c = "Ir"
                  THEN on_value(eval_ir(c.ir, span, st))
                  ELSE on_let_value(eval_ir(c.ir, Append(span, 1), st)))

\* interp.scopes.mut_target(&ir.target, |t| ir.op.assign(ir, t, value)), for
\* a target that is a name: the innermost binding is combined with the value
\* in place.
scopes_mut_target(st, target, op, value, span) ==
    LET i == Lookup(st.scopes, target, Len(st.scopes))
    IN  IF i = 0
        THEN [ok |-> FALSE, err |-> Error(span, "missing target"), st |-> st]
        ELSE
    LET t == st.scopes[i][target]
    IN  IF t.t # "Integer" \/ value.t # "Integer"
        THEN [ok |-> FALSE, err |-> Error(span, "unsupported operands"), st |-> st]
        ELSE
    LET r == integer_match(op, t.integer, value.integer, span, span)
    IN  IF ~r.ok THEN [ok |-> FALSE, err |-> r, st |-> st]
        ELSE [ok |-> TRUE, st |-> [st EXCEPT !.scopes[i][target] = r.value]]

eval_ir_assign(n, span, st) ==
    Return("eval_ir_assign", span, st,
    LET t == budget_take(st, span)
    IN  IF ~t.ok THEN [r |-> t.err, st |-> t.st]
        ELSE
    LET v == eval_ir(n.value, Append(span, 1), t.st)
    IN  IF ~v.r.ok THEN v
        ELSE
    LET m == scopes_mut_target(v.st, n.target, n.op, v.r.value, span)
    IN  IF ~m.ok THEN [r |-> m.err, st |-> m.st]
        ELSE [r |-> Ok(Unit), st |-> m.st])

eval_ir_set(n, span, st) ==
    Return("eval_ir_set", span, st,
    LET t == budget_take(st, span)
    IN  IF ~t.ok THEN [r |-> t.err, st |-> t.st]
        ELSE
    LET v == eval_ir(n.value, Append(span, 1), t.st)
    IN  IF ~v.r.ok THEN v
        ELSE
    LET w == scopes_set_target(v.st, n.target, v.r.value, span)
    IN  IF ~w.ok THEN [r |-> w.err, st |-> w.st]
        ELSE [r |-> Ok(Unit), st |-> w.st])

\* The digits of num / den after the point, at most k of them.
RECURSIVE FractionDigits(_, _, _)
FractionDigits(num, den, k) ==
    IF num = 0 \/ k = 0 THEN ""
    ELSE ToString((num * 10) \div den) \o FractionDigits((num * 10) % den, den, k - 1)

\* The digits an f64 is told from its neighbours by.
MaxDigits == 17

\* ryu::Buffer::format(float): the shortest decimal that reads back as the
\* float, for the magnitudes that are written without an exponent.
f64_format(f) ==
    IF IsNaN(f) THEN "NaN"
    ELSE IF IsInf(f) THEN (IF f.neg THEN "-inf" ELSE "inf")
    ELSE (IF f.neg THEN "-" ELSE "")
            \o ToString(f.num \div f.den) \o "."
            \o (IF f.num % f.den = 0 THEN "0"
                ELSE FractionDigits(f.num % f.den, f.den, MaxDigits))

template_match_lenient(value, span) ==
    CASE value.t = "Integer" -> [ok |-> TRUE, string |-> ToString(value.integer)]
      [] value.t = "Float" -> [ok |-> TRUE, string |-> f64_format(value.float)]
      [] value.t = "Bool" ->
           [ok |-> TRUE, string |-> IF value.bool THEN "true" ELSE "false"]
      [] value.t = "String" ->
           LET s == shared(value.access)
           IN  IF ~s.ok THEN [ok |-> FALSE, err |-> Error(span, s.error)]
               ELSE [ok |-> TRUE, string |-> value.string]
      [] OTHER -> [ok |-> TRUE, string |-> ""]

\* The match on const_value of eval_ir_template: what the value adds to buf.
template_match(value, span) ==
    CASE value.t = "Integer" -> [ok |-> TRUE, string |-> ToString(value.integer)]
      [] value.t = "Float" -> [ok |-> TRUE, string |-> f64_format(value.float)]
      [] value.t = "Bool" ->
           [ok |-> TRUE, string |-> IF value.bool THEN "true" ELSE "false"]
      [] value.t = "String" ->
           LET s == shared(value.access)
           IN  IF ~s.ok THEN [ok |-> FALSE, err |-> Error(span, s.error)]
               ELSE [ok |-> TRUE, string |-> value.string]
      [] OTHER -> [ok |-> FALSE, err |-> NotConst(span)]

\* for component in &ir.components { .. }, from component i on
eval_ir_components(components, i, span, st, buf) ==
    IF i > Len(components) THEN [r |-> Ok(String(buf)), st |-> st]
    ELSE IF components[i].c = "String"
    THEN eval_ir_components(components, i + 1, span, st, buf \o components[i].string)
    ELSE LET const_value == eval_ir(components[i].ir, Append(span, i), st)
         IN  IF ~const_value.r.ok THEN const_value
             ELSE
         LET m == template_match(const_value.r.value, Append(span, i))
         IN  IF ~m.ok THEN [r |-> m.err, st |-> const_value.st]
             ELSE eval_ir_components(components, i + 1, span, const_value.st,
                                     buf \o m.string)

eval_ir_template(n, span, st) ==
    Return("eval_ir_template", span, st,
    LET t == budget_take(st, span)
    IN  IF ~t.ok THEN [r |-> t.err, st |-> t.st]
        ELSE eval_ir_components(n.components, 1, span, t.st, ""))

\* for item in ir.items.iter() { items.push(eval_ir(item, interp, used)?); },
\* from item i on; values are the items pushed so far.
eval_ir_items(items, i, span, st, values) ==
    IF i > Len(items) THEN [r |-> Ok(values), st |-> st]
    ELSE LET v == eval_ir(items[i], Append(span, i), st)
         IN  IF ~v.r.ok THEN v
             ELSE eval_ir_items(items, i + 1, span, v.st, Append(values, v.r.value))

eval_ir_vec(n, span, st) ==
    LET vs == eval_ir_items(n.items, 1, span, st, <<>>)
    IN  IF ~vs.r.ok THEN vs ELSE [r |-> Ok(Vec(vs.r.value)), st |-> vs.st]

eval_ir_tuple(n, span, st) ==
    LET vs == eval_ir_items(n.items, 1, span, st, <<>>)
    IN  IF ~vs.r.ok THEN vs ELSE [r |-> Ok(Tuple(vs.r.value)), st |-> vs.st]

\* object.insert(key, value) for the assignments in order: a later value of
\* a key replaces an earlier one.
ObjectOf(assignments, values) ==
    [key \in {assignments[i][1] : i \in DOMAIN assignments} |->
        LET last_i == CHOOSE i \in DOMAIN assignments :
                         /\ assignments[i][1] = key
                         /\ \A j \in DOMAIN assignments : assignments[j][1] = key => j <= i
        IN  values[last_i]]

eval_ir_object(n, span, st) ==
    LET vs == eval_ir_items([i \in DOMAIN n.assignments |-> n.assignments[i][2]],
                            1, span, st, <<>>)
    IN  IF ~vs.r.ok THEN vs
        ELSE [r |-> Ok(Object(ObjectOf(n.assignments, vs.r.value))), st |-> vs.st]

eval_ir_call_right_to_left(n, span, st) ==
    Return("eval_ir_call", span, st,
    IF Len(n.args) = 2
    THEN LET b == eval_ir(n.args[2], Append(span, 2), st)
         IN  IF ~b.r.ok THEN b
             ELSE
         LET a == eval_ir(n.args[1], Append(span, 1), b.st)
         IN  IF ~a.r.ok THEN a
             ELSE call_const_fn(a.st, span, n.target, <<a.r.value, b.r.value>>)
    ELSE
    LET args == eval_ir_items(n.args, 1, span, st, <<>>)
    IN  IF ~args.r.ok THEN args
        ELSE call_const_fn(args.st, span, n.target, args.r.value))

eval_ir_call(n, span, st) ==
    Return("eval_ir_call", span, st,
    LET args == eval_ir_items(n.args, 1, span, st, <<>>)
    IN  IF ~args.r.ok THEN args
        ELSE call_const_fn(args.st, span, n.target, args.r.value))

eval_ir_decl_uncharged(n, span, st) ==
    Return("eval_ir_decl", span, st,
    LET v == eval_ir(n.value, Append(span, 1), st)
    IN  IF ~v.r.ok THEN v
        ELSE
    LET d == scopes_decl(v.st, n.name, v.r.value, span)
    IN  IF ~d.ok THEN [r |-> d.err, st |-> d.st]
        ELSE [r |-> Ok(Unit), st |-> d.st])

eval_ir_decl(n, span, st) ==
    Return("eval_ir_decl", span, st,
    LET t == budget_take(st, span)
    IN  IF ~t.ok THEN [r |-> t.err, st |-> t.st]
        ELSE
    LET v == eval_ir(n.value, Append(span, 1), t.st)
    IN  IF ~v.r.ok THEN v
        ELSE
    LET d == scopes_decl(v.st, n.name, v.r.value, span)
    IN  IF ~d.ok THEN [r |-> d.err, st |-> d.st]
        ELSE [r |-> Ok(Unit), st |-> d.st])

\* for ir in &ir.instructions { let _ = eval_ir(ir, interp, used)?; }
eval_ir_instructions(instructions, i, span, st) ==
    IF i > Len(instructions) THEN [r |-> Ok(Unit), st |-> st]
    ELSE LET v == eval_ir(instructions[i], Append(span, i), st)
         IN  IF ~v.r.ok THEN v
             ELSE eval_ir_instructions(instructions, i + 1, span, v.st)

eval_ir_scope_unit(n, span, st) ==
    LET on_pop(v, p) ==
            IF ~p.ok THEN [r |-> p.err, st |-> p.st]
            ELSE [r |-> Ok(Unit), st |-> p.st]
        on_last(g, v) ==
            IF ~v.r.ok THEN v
            ELSE on_pop(v, scopes_pop(v.st, span, g.guard))
        on_instructions(g, is) ==
            IF ~is.r.ok THEN is
            ELSE on_last(g, IF n.last # NoIr
                            THEN eval_ir(n.last, Append(span, Len(n.instructions) + 1), is.st)
                            ELSE [r |-> Ok(Unit), st |-> is.st])
        on_push(g) ==
            on_instructions(g, eval_ir_instructions(n.instructions, 1, span, g.st))
        on_take(t) ==
            IF ~t.ok THEN [r |-> t.err, st |-> t.st]
            ELSE on_push(scopes_push(t.st))
    IN  Return("eval_ir_scope", span, st, on_take(budget_take(st, span)))

eval_ir_scope(n, span, st) ==
    LET on_pop(v, p) ==
            IF ~p.ok THEN [r |-> p.err, st |-> p.st]
            ELSE [r |-> v.r, st |-> p.st]
        on_last(g, v) ==
            IF ~v.r.ok THEN v
            ELSE on_pop(v, scopes_pop(v.st, span, g.guard))
        on_instructions(g, is) ==
            IF ~is.r.ok THEN is
            ELSE on_last(g, IF n.last # NoIr
                            THEN eval_ir(n.last, Append(span, Len(n.instructions) + 1), is.st)
                            ELSE [r |-> Ok(Unit), st |-> is.st])
        on_push(g) ==
            on_instructions(g, eval_ir_instructions(n.instructions, 1, span, g.st))
        on_take(t) ==
            IF ~t.ok THEN [r |-> t.err, st |-> t.st]
            ELSE on_push(scopes_push(t.st))
    IN  Return("eval_ir_scope", span, st, on_take(budget_take(st, span)))

eval_ir_branch_shared_frame(n, i, span, st) ==
    LET on_pop(b, output, p) ==
            IF ~p.ok THEN [r |-> p.err, st |-> p.st]
            ELSE [r |-> output.r, st |-> p.st]
        on_output(g, b, output) ==
            IF ~output.r.ok THEN output
            ELSE on_pop(b, output, scopes_pop(output.st, Append(span, 2 * i), g.guard))
        on_bool(g, value, b) ==
            IF ~b.ok THEN [r |-> b.err, st |-> value.st]
            ELSE IF ~b.bool THEN eval_ir_branch(n, i + 1, span, value.st)
            ELSE on_output(g, b, eval_ir_scope(n.branches[i][2], Append(span, 2 * i),
                                               value.st))
        on_condition(g, value) ==
            IF ~value.r.ok THEN value
            ELSE on_bool(g, value, as_bool(Append(span, 2 * i - 1), value.r.value))
        on_push(g) ==
            on_condition(g, eval_ir_condition(n.branches[i][1], Append(span, 2 * i - 1), g.st))
    IN  IF i > Len(n.branches)
        THEN IF n.default_branch # NoIr
             THEN eval_ir_scope(n.default_branch, Append(span, 0), st)
             ELSE [r |-> Ok(Unit), st |-> st]
        ELSE on_push(scopes_push(st))

\* The body of `for (ir_condition, branch) in &ir.branches`, from branch i on,
\* and what follows the loop.
eval_ir_branch(n, i, span, st) ==
    LET on_pop(b, output, p) ==
            IF ~p.ok THEN [r |-> p.err, st |-> p.st]
            ELSE IF b.bool THEN [r |-> output.r, st |-> p.st]
            ELSE eval_ir_branch(n, i + 1, span, p.st)
        on_output(g, b, output) ==
            IF ~output.r.ok THEN output
            ELSE on_pop(b, output, scopes_pop(output.st, Append(span, 2 * i), g.guard))
        on_bool(g, value, b) ==
            IF ~b.ok THEN [r |-> b.err, st |-> value.st]
            ELSE on_output(g, b, IF b.bool
                                 THEN eval_ir_scope(n.branches[i][2], Append(span, 2 * i),
                                                    value.st)
                                 ELSE [r |-> Ok(Unit), st |-> value.st])
        on_condition(g, value) ==
            IF ~value.r.ok THEN value
            ELSE on_bool(g, value, as_bool(Append(span, 2 * i - 1), value.r.value))
        on_push(g) ==
            on_condition(g, eval_ir_condition(n.branches[i][1], Append(span, 2 * i - 1), g.st))
    IN  IF i > Len(n.branches)
        THEN IF n.default_branch # NoIr
             THEN eval_ir_scope(n.default_branch, Append(span, 0), st)
             ELSE [r |-> Ok(Unit), st |-> st]
        ELSE on_push(scopes_push(st))

eval_ir_branches(n, span, st) ==
    Return("eval_ir_branches", span, st, eval_ir_branch(n, 1, span, st))

\* One turn of `loop { .. }` in eval_ir_loop and, when the loop is left with
\* break, the pop that follows it.  left tells how the loop was left and by
\* is the Result that made it leave.
eval_ir_loop_iteration(n, span, st, guard) ==
    LET on_pop(p, how, by) ==
            IF ~p.ok THEN [r |-> p.err, st |-> p.st, left |-> how, by |-> by]
            ELSE [r |-> Ok(Unit), st |-> p.st, left |-> how, by |-> by]
        Leave(s, how, by) == on_pop(scopes_pop(s, span, guard), how, by)
        on_match(o, m) ==
            IF m.break THEN Leave(o.st, m.how, o.r)
            ELSE [r |-> m.r, st |-> o.st, left |-> m.how, by |-> o.r]
        on_body(o) ==
            IF o.r.ok THEN eval_ir_loop_iteration(n, span, o.st, guard)
            ELSE on_match(o, loop_match(n, o.r))
        Body(s) == on_body(eval_ir_scope(n.body, Append(span, 2), s))
        on_bool(value, b) ==
            IF ~b.ok THEN [r |-> b.err, st |-> value.st, left |-> "Error", by |-> b.err]
            ELSE IF ~b.bool THEN Leave(value.st, "condition", value.r)
            ELSE Body(value.st)
        on_condition(value) ==
            IF ~value.r.ok
            THEN [r |-> value.r, st |-> value.st, left |-> value.r.outcome, by |-> value.r]
            ELSE on_bool(value, as_bool(Append(span, 1), value.r.value))
        on_clear(c) ==
            IF ~c.ok THEN [r |-> c.err, st |-> c.st, left |-> "Error", by |-> c.err]
            ELSE on_condition(eval_ir_condition(n.condition, Append(span, 1), c.st))
    IN  IF n.condition # NoCondition
        THEN on_clear(scopes_clear_current(st, Append(span, 1)))
        ELSE Body(st)

eval_ir_loop(n, span, st) ==
    LET on_loop(l) ==
            [r |-> l.r,
             st |-> Log(l.st, [ev |-> "left", span |-> span, how |-> l.left,
                               by |-> l.by, label |-> n.label,
                               conditional |-> n.condition # NoCondition])]
        on_push(g) == on_loop(eval_ir_loop_iteration(n, span, g.st, g.guard))
        on_take(t) ==
            IF ~t.ok THEN [r |-> t.err, st |-> t.st]
            ELSE on_push(scopes_push(t.st))
    IN  Return("eval_ir_loop", span, st, on_take(budget_take(st, span)))

\* ir.as_outcome(interp, used) of a Break node: the value it carries is
\* evaluated first.
as_outcome(n, span, st) ==
    IF n.value # NoIr
    THEN LET v == eval_ir(n.value, Append(span, 1), st)
         IN  IF ~v.r.ok THEN v
             ELSE [r |-> Break(span, BreakValue(v.r.value)), st |-> v.st]
    ELSE IF n.label.some
    THEN [r |-> Break(span, BreakLabel(n.label.label)), st |-> st]
    ELSE [r |-> Break(span, Inherent), st |-> st]

\* match &ir.kind { .. } of eval_ir
eval_ir_kind(n, span, st) ==
    CASE n.kind = "Scope" -> eval_ir_scope(n, span, st)
      [] n.kind = "Binary" -> eval_ir_binary(n, span, st)
      [] n.kind = "Decl" -> eval_ir_decl(n, span, st)
      [] n.kind = "Set" -> eval_ir_set(n, span, st)
      [] n.kind = "Assign" -> eval_ir_assign(n, span, st)
      [] n.kind = "Template" -> eval_ir_template(n, span, st)
      [] n.kind = "Name" -> [r |-> resolve_var(st, span, n.name), st |-> st]
      [] n.kind = "Value" -> [r |-> Ok(n.value), st |-> st]
      [] n.kind = "Branches" -> eval_ir_branches(n, span, st)
      [] n.kind = "Loop" -> eval_ir_loop(n, span, st)
      [] n.kind = "Break" -> as_outcome(n, span, st)
      [] n.kind = "Vec" -> eval_ir_vec(n, span, st)
      [] n.kind = "Tuple" -> eval_ir_tuple(n, span, st)
      [] n.kind = "Object" -> eval_ir_object(n, span, st)
      [] n.kind = "Call" -> eval_ir_call(n, span, st)

eval_ir_value_uncharged(n, span, st) ==
    Return("eval_ir", span, st,
    IF n.kind = "Value" THEN [r |-> Ok(n.value), st |-> Enter("eval_ir", span, st)]
    ELSE
    LET t == budget_take(Enter("eval_ir", span, st), span)
    IN  IF ~t.ok THEN [r |-> t.err, st |-> t.st]
        ELSE eval_ir_kind(n, span, t.st))

eval_ir(n, span, st) ==
    Return("eval_ir", span, st,
    LET t == budget_take(Enter("eval_ir", span, st), span)
    IN  IF ~t.ok THEN [r |-> t.err, st |-> t.st]
        ELSE eval_ir_kind(n, span, t.st))

(***************************************************************************)
(* The trees and the interpreters the evaluator is run on.                 *)
(***************************************************************************)
MaxBudget == 12

Names == {"x"}

Labels == {"a", "b"}

Atoms ==
    {IrValue(Unit), IrValue(Bool(TRUE)), IrValue(Integer(7)), IrName("x"),
     IrBinary("Div", IrValue(Integer(1)), IrValue(Integer(0))),
     IrBinary("Add", IrValue(Integer(1)), IrValue(Bool(FALSE))),
     IrBreak(NoLabel, NoIr), IrBreak(Label("a"), NoIr),
     IrBreak(NoLabel, IrValue(Integer(7)))}

Instructions ==
    {<<>>, <<IrDecl("x", IrValue(Integer(1)))>>, <<IrBreak(NoLabel, NoIr)>>,
     <<IrBinary("Div", IrValue(Integer(1)), IrValue(Integer(0)))>>}

\* Scopes of atoms.
Scopes1 == {IrScope(is, l) : is \in Instructions, l \in Atoms \cup {NoIr}}

Conditions ==
    {IrConditionIr(IrValue(Bool(TRUE))), IrConditionIr(IrValue(Bool(FALSE))),
     IrConditionIr(IrValue(Integer(7))), IrConditionIr(IrName("x")),
     IrConditionIr(IrBinary("Lt", IrName("x"), IrValue(Integer(1))))}

Branches1 ==
    {IrBranches(<<<<c, IrScope(<<>>, l)>>>>, d) :
        c \in Conditions, l \in Atoms,
        d \in {NoIr, IrScope(<<>>, IrValue(Integer(9))), IrScope(<<>>, IrBreak(NoLabel, NoIr))}}

Loops1 ==
    {IrLoop(label, c, body) :
        label \in {NoLabel, Label("a"), Label("b")},
        c \in Conditions \cup {NoCondition},
        body \in Scopes1}

\* loop { if c { break .. } }
Loops2 ==
    {IrLoop(label, c, IrScope(is, b)) :
        label \in {NoLabel, Label("a")},
        c \in {NoCondition, IrConditionIr(IrValue(Bool(TRUE)))},
        is \in {<<>>, <<IrDecl("x", IrValue(Integer(1)))>>},
        b \in Branches1}

\* A loop in the body of a loop, and a loop in a scope.
Loops3 ==
    {IrLoop(label, NoCondition, IrScope(<<>>, l)) :
        label \in {NoLabel, Label("a")},
        l \in {m \in Loops1 : m.condition \in {NoCondition, IrConditionIr(IrValue(Bool(TRUE)))}
                              /\ m.body.instructions = <<>>}}

Scopes2 ==
    {IrScope(<<l>>, IrName("x")) : l \in {m \in Loops1 : m.label = NoLabel}}

\* Loop(label = "outer", cond = None, body = Break(label = "outer", value = Integer 7))
Scenario5 ==
    IrLoop(Label("outer"), NoCondition,
           IrScope(<<>>, IrBreak(Label("outer"), IrValue(Integer(7)))))

\* Binary(Div, Value(Integer 1), Value(Integer 0))
Scenario2 == IrBinary("Div", IrValue(Integer(1)), IrValue(Integer(0)))

\* Binary(Add, Value(String "a"), Value(String "b"))
Scenario7 == IrBinary("Add", IrValue(String("a")), IrValue(String("b")))

\* Branches([(Value(Bool false), body_a)], default = Some(body_b)), where
\* body_b is Integer 9
Scenario8 ==
    IrBranches(<<<<IrConditionIr(IrValue(Bool(FALSE))), IrScope(<<>>, IrValue(Integer(7)))>>>>,
               IrScope(<<>>, IrValue(Integer(9))))

\* Template([Lit "x=", Ir(Value(Integer 42))])
Scenario6 == IrTemplate(<<IrTemplateString("x="), IrTemplateIr(IrValue(Integer(42)))>>)

Scenarios == {Scenario2, Scenario5, Scenario6, Scenario7, Scenario8}

\* The components of the templates: a literal chunk, a value of every kind
\* (the quotient 0.0 / 0.0 is NaN) and a name.
Components ==
    {IrTemplateString("x=")}
        \cup {IrTemplateIr(IrValue(v)) :
                v \in {Integer(42), Integer(0 - 3), Float(F64(FALSE, 2, 1)),
                       Float(F64(TRUE, 1, 2)), Bool(TRUE), Bool(FALSE), String("a"),
                       SharedString("c", TAKEN), Unit}}
        \cup {IrTemplateIr(n) :
                n \in {IrVec(<<>>), IrTuple(<<IrValue(Integer(1))>>),
                       IrObject(<<<<"k", IrValue(Integer(1))>>>>), IrName("x"),
                       IrBinary("Div", IrValue(Float(F64(FALSE, 0, 1))),
                                IrValue(Float(F64(FALSE, 0, 1))))}}

\* The templates of no, one and two components.
Templates ==
    {IrTemplate(<<>>)} \cup {IrTemplate(<<c>>) : c \in Components}
        \cup {IrTemplate(<<c, d>>) : c \in Components, d \in Components}

\* if c1 { 1 } else if c2 { 2 }, with and without else { 9 }
Branches2 ==
    {IrBranches(<<<<c1, IrScope(<<>>, IrValue(Integer(1)))>>,
                  <<c2, IrScope(<<>>, IrValue(Integer(2)))>>>>, d) :
        c1 \in Conditions, c2 \in Conditions,
        d \in {NoIr, IrScope(<<>>, IrValue(Integer(9)))}}

IrBinaryOp == {"Add", "Sub", "Mul", "Div", "Shl", "Shr", "Lt", "Lte", "Eq", "Gt", "Gte"}

\* The integers around zero and around the largest shift operand.
IntegerOperands == {0 - 3, 0 - 1, 0, 1, U32Max, U32Max + 1}

\* 0.0, 2.0 and -0.5
FloatOperands == {F64(FALSE, 0, 1), F64(FALSE, 2, 1), F64(TRUE, 1, 2)}

\* Two strings in new cells and a string whose cell has been taken.
StringOperands == {String("a"), String("b"), SharedString("c", TAKEN)}

Operands ==
    {Integer(i) : i \in IntegerOperands} \cup {Float(f) : f \in FloatOperands}
        \cup StringOperands \cup {Bool(TRUE), Unit}

\* Every operator on every pair of operands.
Binaries ==
    {IrBinary(op, IrValue(a), IrValue(b)) : op \in IrBinaryOp, a \in Operands, b \in Operands}

\* Every operator on an infinity or NaN, the quotient of a float by 0.0.
Binaries2 ==
    {IrBinary(op, IrBinary("Div", IrValue(Float(f)), IrValue(Float(F64(FALSE, 0, 1)))),
              IrValue(Float(g))) :
        op \in IrBinaryOp, f \in FloatOperands, g \in FloatOperands}

\* { a / b; a / 0 }: a quotient that is truncated, then a division by zero.
DivByZero ==
    IrScope(<<IrBinary("Div", IrValue(Integer(0 - 3)), IrValue(Integer(U32Max)))>>,
            IrBinary("Div", IrValue(Integer(0 - 3)), IrValue(Integer(0))))

\* { 1 << max; 1 >> max + 1 }: the largest shift operand, then one more.
ShiftBoundary ==
    IrScope(<<IrBinary("Shl", IrValue(Integer(1)), IrValue(Integer(U32Max)))>>,
            IrBinary("Shr", IrValue(Integer(1)), IrValue(Integer(U32Max + 1))))

\* while x < 2 { x = 1 }, while x < 2 { x += 1 }, while let 0 = x { x = 1 },
\* while let y = x { break }: conditions that are true and then false.
Loops4 ==
    {IrLoop(label, c, IrScope(<<i>>, NoIr)) :
        label \in {NoLabel, Label("a")},
        c \in {IrConditionIr(IrBinary("Lt", IrName("x"), IrValue(Integer(2)))),
               IrConditionLet(PatLit(Integer(0)), IrName("x")),
               IrConditionLet(PatIdent("y"), IrName("x"))},
        i \in {IrSet("x", IrValue(Integer(1))),
               IrAssign("x", "Add", IrValue(Integer(1))),
               IrAssign("y", "Add", IrValue(Integer(1))),
               IrBreak(NoLabel, NoIr)}}

\* while loop { break b } { }: a condition that is a loop left with a value
Loops5 ==
    {IrLoop(NoLabel,
            IrConditionIr(IrLoop(NoLabel, NoCondition,
                                 IrScope(<<>>, IrBreak(NoLabel, IrValue(Bool(b)))))),
            IrScope(<<>>, NoIr)) : b \in BOOLEAN}

\* A value of every kind.
Values ==
    {IrValue(v) : v \in Operands \cup {Vec(<<>>), Tuple(<<Integer(1)>>),
                                      Object([k \in {"k"} |-> Integer(1)])}}

\* The items of the containers and the arguments of the calls: a value, an
\* error, a name, and breaks.
Items ==
    {IrValue(Integer(1)), IrValue(String("a")),
     IrBinary("Div", IrValue(Integer(1)), IrValue(Integer(0))),
     IrName("x"), IrBreak(NoLabel, NoIr), IrBreak(NoLabel, IrValue(Integer(7)))}

\* The lists of no, one and two items.
ItemLists == {<<>>} \cup {<<a>> : a \in Items} \cup {<<a, b>> : a \in Items, b \in Items}

\* The keys of the assignments of an object with as many values, the same key
\* twice included.
Keys(n) == IF n = 2 THEN {<<"a", "b">>, <<"a", "a">>} ELSE {<<"a">>}

Containers ==
    {IrVec(items) : items \in ItemLists} \cup {IrTuple(items) : items \in ItemLists}
        \cup {IrCall(target, items) : target \in {"first", "other"}, items \in ItemLists}
        \cup UNION {{IrObject([i \in DOMAIN items |-> <<keys[i], items[i]>>]) :
                        keys \in Keys(Len(items))} : items \in ItemLists}

\* A binary operation on operands that can fail.
Binaries3 == {IrBinary("Add", a, b) : a \in Items, b \in Items}

\* A break and a call that is not constant as the value of a declaration, of
\* an assignment and of a component of a template.
Raising ==
    {IrBreak(NoLabel, NoIr), IrBreak(Label("a"), NoIr),
     IrBreak(NoLabel, IrValue(Integer(7))), IrCall("other", <<>>)}

Breaks ==
    {IrDecl("x", b) : b \in Raising} \cup {IrSet("x", b) : b \in Raising}
        \cup {IrAssign("x", "Add", b) : b \in Raising}
        \cup {IrTemplate(<<IrTemplateIr(b), IrTemplateString("a")>>) : b \in Raising}
        \cup {IrLoop(NoLabel, NoCondition, IrScope(<<IrDecl("x", b)>>, NoIr)) : b \in Raising}

\* if c1 { y } else if c2 { y } else { y }, and { if c1 { y }; y }: c1 declares
\* y and is false, does not match, matches, binds y, or leaves frames behind;
\* c2, the bodies and what follows read y.
Conditions3 ==
    {IrConditionIr(IrCall("first", <<IrValue(Bool(FALSE)), IrDecl("y", IrValue(Integer(5)))>>)),
     IrConditionLet(PatLit(Integer(1)), IrName("x")),
     IrConditionLet(PatLit(Integer(0)), IrName("x")),
     IrConditionLet(PatIdent("y"), IrName("x")),
     IrConditionIr(IrLoop(NoLabel, NoCondition,
                          IrScope(<<>>, IrBreak(NoLabel, IrValue(Bool(FALSE))))))}

Branches3 ==
    {IrBranches(<<<<c1, IrScope(<<>>, IrName("y"))>>, <<c2, IrScope(<<>>, IrName("y"))>>>>, d) :
        c1 \in Conditions3,
        c2 \in {IrConditionIr(IrBinary("Eq", IrName("y"), IrValue(Integer(5)))),
                IrConditionIr(IrValue(Bool(FALSE))),
                IrConditionLet(PatIdent("y"), IrValue(Integer(1)))},
        d \in {NoIr, IrScope(<<>>, IrName("y"))}}
        \cup {IrBranches(<<<<c1, IrScope(<<>>, IrName("y"))>>>>, IrScope(<<>>, IrName("y"))) :
                 c1 \in Conditions3}
        \cup {IrScope(<<IrBranches(<<<<c1, IrScope(<<>>, IrName("y"))>>>>, NoIr)>>, IrName("y")) :
                 c1 \in Conditions3}

Programs ==
    Branches3 \cup Breaks \cup Binaries3 \cup Containers \cup Values \cup Templates \cup Loops4 \cup Loops5 \cup Atoms \cup Scopes1 \cup Branches1 \cup Loops1 \cup Loops2 \cup Loops3 \cup Scopes2
        \cup Scenarios \cup Binaries \cup Binaries2 \cup {DivByZero, ShiftBoundary}
        \cup Branches2

InitialScopes == {<<>>, <<[x \in {"x"} |-> Integer(0)]>>}

NoResult == [ok |-> FALSE, outcome |-> "None"]

AccessIdle ==
    /\ access = AccessNew
    /\ guards = NoGuards
    /\ last = NoCall

InitEval ==
    /\ ir \in Programs
    /\ \E scopes \in InitialScopes, budget \in 0 .. MaxBudget :
          interp = [scopes |-> scopes, budget |-> budget, seed |-> budget, trace |-> <<>>]
    /\ result = NoResult
    /\ pc = "ready"
    /\ AccessIdle

\* eval_ir(ir, interp, used) on the root of the tree
Eval ==
    /\ pc = "ready"
    /\ LET e == eval_ir(ir, <<>>, interp)
       IN  /\ result' = e.r
           /\ interp' = e.st
    /\ pc' = "done"
    /\ UNCHANGED <<ir, accessVars>>

NextEval == Eval

SpecEval == InitEval /\ [][NextEval]_vars

(***************************************************************************)
(* Two evaluations side by side: of a tree and of the Scope whose last is  *)
(* the tree, and of a tree twice.  interp and result then hold one         *)
(* interpreter and one Result for each of the two evaluations.             *)
(***************************************************************************)
eval_ir_in_any_order(n, st) ==
    {eval_ir(n, <<>>, st)}
        \cup IF n.kind = "Object" /\ Len(n.assignments) = 2
             THEN {eval_ir(IrObject(<<n.assignments[2], n.assignments[1]>>), <<>>, st)}
             ELSE {}

\* The returns eval_ir(ir, interp, used) can make from the interpreter st:
\* the code makes no choice and reads nothing but ir and interp.
eval_ir_outcomes(n, st) == {eval_ir(n, <<>>, st)}

\* An interpreter with the budget and the scopes st was made with.
Fresh(st) == [scopes |-> st.scopes, budget |-> st.seed, seed |-> st.seed, trace |-> <<>>]

\* eval(e) and eval(Scope { instructions = [], last = e })
EvalScoped ==
    /\ pc = "ready"
    /\ \E plain \in eval_ir_outcomes(ir, interp),
          scoped \in eval_ir_outcomes(IrScope(<<>>, ir), Fresh(interp)) :
          /\ result' = [plain |-> plain.r, scoped |-> scoped.r]
          /\ interp' = [plain |-> plain.st, scoped |-> scoped.st]
    /\ pc' = "scoped"
    /\ UNCHANGED <<ir, accessVars>>

\* eval(e) in two interpreters that were made alike
EvalTwice ==
    /\ pc = "ready"
    /\ \E first \in eval_ir_outcomes(ir, interp),
          second \in eval_ir_outcomes(ir, Fresh(interp)) :
          /\ result' = [first |-> first.r, second |-> second.r]
          /\ interp' = [first |-> first.st, second |-> second.st]
    /\ pc' = "twice"
    /\ UNCHANGED <<ir, accessVars>>

NextPair == EvalScoped \/ EvalTwice

SpecPair == InitEval /\ [][NextPair]_vars

(***************************************************************************)
(* Properties of the access counter.                                       *)
(***************************************************************************)
Attempts == {"shared", "exclusive", "take"}

SharedGuards == {"RawBorrowedRef", "BorrowRef"}

ExclusiveGuards == {"RawBorrowedMut", "BorrowMut"}

\* C3 (as stated): the number of outstanding shared guards, plus one for an
\* outstanding exclusive guard, plus one for an outstanding take guard, is
\* the absolute value of the counter.
C3_AbsoluteValue == Outstanding(guards) = Abs(access)

\* C3 (amended): the number of outstanding guards is the absolute value of
\* the counter, except that a counter of TAKEN stands for exactly one take
\* guard.
C3_Magnitude ==
    /\ Outstanding(guards) = (IF access = TAKEN THEN 1 ELSE Abs(access))
    /\ access = TAKEN => TakeOutstanding(guards) = 1
    /\ access = 1 => ExclusiveOutstanding(guards) = 1
    /\ access < 0 => SharedOutstanding(guards) = Abs(access)

C3_Witness ==
    /\ last.op = "drop"
    /\ SharedOutstanding(guards) = 2
    /\ guards["BorrowRef"] = 1

\* C4 (as stated): shared() succeeds iff the counter c is <= 0 and not MAX;
\* on success the counter is c - 1 and the guard is a shared guard, on
\* failure the error is NotAccessibleRef.
C4_SharedIffNotPositive ==
    last.op = "shared" =>
        /\ last.ok <=> (last.pre <= 0 /\ last.pre # MaxWord)
        /\ last.ok => access = last.pre - 1 /\ guards["RawBorrowedRef"] = 1
        /\ ~last.ok => last.error = "NotAccessibleRef"

\* C4 (amended): shared() succeeds iff MIN < c <= 0; on success the counter
\* is c - 1 and the guard is a shared guard, on failure (c > 0, or c = MIN
\* where c - 1 wraps to MAX) the error is NotAccessibleRef and the counter
\* stays c.
C4_SharedIffAboveMin ==
    last.op = "shared" =>
        /\ last.ok <=> (MinWord < last.pre /\ last.pre <= 0)
        /\ last.ok => access = last.pre - 1 /\ guards["RawBorrowedRef"] = 1
        /\ ~last.ok => last.error = "NotAccessibleRef" /\ access = last.pre

C4_Witness ==
    /\ last.op = "shared"
    /\ last.ok
    /\ last.pre < 0
    /\ access = last.pre - 1

\* C5: exclusive() succeeds iff the counter is 0, MAX and the negative values
\* included; on success the counter is 1, on failure the error is
\* NotAccessibleMut.
C5_ExclusiveIffZero ==
    last.op = "exclusive" =>
        /\ last.ok <=> last.pre = 0
        /\ last.ok => access = 1 /\ guards["RawBorrowedMut"] = 1
        /\ ~last.ok => last.error = "NotAccessibleMut"

C5_Witness ==
    /\ last.op = "exclusive"
    /\ last.pre = MaxWord
    /\ ~last.ok

\* C6: take() succeeds iff the counter is 0 and sets it to MAX; while the take
\* guard is outstanding shared(), exclusive() and take() fail; the drop of the
\* take guard sets the counter to 0.
C6_Take ==
    /\ last.op = "take" =>
          /\ last.ok <=> last.pre = 0
          /\ last.ok => access = MaxWord /\ TakeOutstanding(guards) = 1
    /\ (last.op \in Attempts /\ TakeOutstanding(last.held) > 0) =>
          ~last.ok /\ TakeOutstanding(guards) = 1
    /\ (last.op = "drop" /\ last.g = "RawTakeGuard") => access = 0

C6_Witness ==
    /\ last.op = "shared"
    /\ TakeOutstanding(last.held) = 1
    /\ ~last.ok

\* C7: exclusive() fails while an exclusive guard or a shared guard is
\* outstanding, take() fails while any guard is outstanding, and a failed
\* shared(), exclusive() or take() returns the counter before the call as its
\* Snapshot and leaves the counter as it was.
C7_FailedAttempts ==
    /\ (last.op = "exclusive" /\ ExclusiveOutstanding(last.held) > 0) => ~last.ok
    /\ (last.op = "exclusive" /\ SharedOutstanding(last.held) > 0) => ~last.ok
    /\ (last.op = "take" /\ Outstanding(last.held) > 0) => ~last.ok
    /\ (last.op \in Attempts /\ ~last.ok) =>
          /\ last.snapshot = last.pre
          /\ access = last.pre
          /\ guards = last.held

C7_Witness ==
    /\ last.op = "exclusive"
    /\ SharedOutstanding(last.held) > 1
    /\ ~last.ok
    /\ last.snapshot = 0 - SharedOutstanding(last.held)

\* C8: the drop of a shared guard adds one to the counter, which stays <= 0;
\* the drop of an exclusive guard takes it from 1 to 0; the drop of a take
\* guard sets it to 0; when no guard is outstanding the counter is 0 and
\* shared(), exclusive() and take() all succeed.
C8_Release ==
    /\ (last.op = "drop" /\ last.g \in SharedGuards) =>
          access = last.pre + 1 /\ access <= 0
    /\ (last.op = "drop" /\ last.g \in ExclusiveGuards) =>
          last.pre = 1 /\ access = 0
    /\ (last.op = "drop" /\ last.g = "RawTakeGuard") => access = 0
    /\ Outstanding(guards) = 0 =>
          /\ access = 0
          /\ shared(access).ok
          /\ exclusive(access).ok
          /\ take(access).ok

C8_Witness ==
    /\ last.op = "drop"
    /\ last.g = "BorrowMut"
    /\ Outstanding(guards) = 0

\* C9: a try_map whose projection succeeds leaves the counter and the number
\* of outstanding guards as they were (the guard of the input is the guard of
\* the output); a try_map whose projection fails has released the input guard
\* when it returns: the counter is one unit closer to 0 and one guard fewer
\* is outstanding.
C9_TryMap ==
    /\ (last.op \in {"try_map_ref", "try_map_mut"} /\ last.ok) =>
          /\ access = last.pre
          /\ guards = last.held
    /\ (last.op = "try_map_ref" /\ ~last.ok) =>
          /\ access = last.pre + 1
          /\ SharedOutstanding(guards) = SharedOutstanding(last.held) - 1
          /\ SharedOutstanding(guards) = Abs(access)
    /\ (last.op = "try_map_mut" /\ ~last.ok) =>
          /\ access = last.pre - 1
          /\ access = 0
          /\ Outstanding(guards) = 0

C9_Witness ==
    /\ last.op = "try_map_ref"
    /\ ~last.ok
    /\ last.pre < 0 - 1

\* The calls that ran a release: the drops, and the try_map whose projection
\* failed.
Released ==
    \/ last.op = "drop"
    \/ last.op \in {"try_map_ref", "try_map_mut"} /\ ~last.ok

\* C28: the counter of a reachable state is <= 0, 1 or MAX; neither the
\* counter nor the Snapshot of a failed call is rendered as "invalidly
\* marked"; the debug_assert of every release that ran held.
C28_CounterValues ==
    /\ access <= 0 \/ access = 1 \/ access = TAKEN
    /\ Display(access).text # "invalidly marked"
    /\ (last.op \in Attempts /\ ~last.ok) =>
          Display(last.snapshot).text # "invalidly marked"
    /\ Released => debug_assert(last.g, last.pre)

\* The take guard is dropped while the counter is MAX, which is rendered as
\* "moved".
C28_Witness ==
    /\ last.op = "drop"
    /\ last.g = "RawTakeGuard"
    /\ last.pre = TAKEN
    /\ Display(last.pre).text = "moved"
    /\ access = 0

\* C29: at most one exclusive guard is outstanding, never together with a
\* shared guard; a take guard is never outstanding together with a shared or
\* an exclusive guard; while an exclusive or a take guard is outstanding
\* shared() can be called and the call returns NotAccessibleRef, the counter
\* and the guards being left as they were.
C29_MutualExclusion ==
    /\ ExclusiveOutstanding(guards) <= 1
    /\ ExclusiveOutstanding(guards) > 0 => SharedOutstanding(guards) = 0
    /\ TakeOutstanding(guards) > 0 =>
          SharedOutstanding(guards) = 0 /\ ExclusiveOutstanding(guards) = 0
    /\ (ExclusiveOutstanding(guards) > 0 \/ TakeOutstanding(guards) > 0) =>
          ENABLED Shared /\ ~shared(access).ok
    /\ (/\ last.op = "shared"
        /\ ExclusiveOutstanding(last.held) > 0 \/ TakeOutstanding(last.held) > 0) =>
          /\ ~last.ok
          /\ last.error = "NotAccessibleRef"
          /\ access = last.pre
          /\ guards = last.held

\* shared() has failed while a BorrowMut is outstanding.
C29_Witness ==
    /\ last.op = "shared"
    /\ ~last.ok
    /\ last.held["BorrowMut"] = 1
    /\ guards["BorrowMut"] = 1
    /\ access = 1

(***************************************************************************)
(* Properties of the evaluator.                                            *)
(***************************************************************************)
Returns(fns) ==
    {i \in DOMAIN interp.trace :
        interp.trace[i].ev = "return" /\ interp.trace[i].fn \in fns}

Pops == {i \in DOMAIN interp.trace : interp.trace[i].ev = "pop"}

\* The places where a loop was left in the given way; the return of
\* eval_ir_loop is the next entry of the trace.
LoopsLeft(how) ==
    {i \in DOMAIN interp.trace :
        interp.trace[i].ev = "left" /\ interp.trace[i].how = how}

\* C1: whenever eval_ir returns Ok, for the root or for a node below it, the
\* depth of the scope stack at the return is the depth at the call; a Loop
\* left through a break raised in its body is no exception.
C1_DepthRestored ==
    pc = "done" =>
        \A i \in Returns({"eval_ir"}) :
            interp.trace[i].r.ok => interp.trace[i].exit = interp.trace[i].entry

\* C2: on every return of eval_ir_scope, eval_ir_branches and eval_ir_loop,
\* whatever the Result, the frames the function pushed have been popped (the
\* depth is the depth at the call), and no pop is given a guard that is not
\* the guard of the top frame.
C2_GuardsReleased ==
    pc = "done" =>
        /\ \A i \in Returns({"eval_ir_scope", "eval_ir_branches", "eval_ir_loop"}) :
              interp.trace[i].exit = interp.trace[i].entry
        /\ \A i \in Pops : interp.trace[i].ok

\* C10: a Loop whose body raises Break(span, Inherent) returns Ok(Unit).
C10_InherentBreakIsUnit ==
    pc = "done" =>
        \A i \in LoopsLeft("Inherent") : interp.trace[i + 1].r = Ok(Unit)

\* The places where a loop was left because its body raised a Break that
\* carries a label.
LabelledBreaks ==
    {j \in DOMAIN interp.trace :
        /\ interp.trace[j].ev = "left"
        /\ ~interp.trace[j].by.ok
        /\ interp.trace[j].by.outcome = "Break"
        /\ interp.trace[j].by.b.b = "Label"}

\* The entry of the trace is the return of the body of the loop at span, with
\* the Result r.
IsBodyReturn(e, span, r) ==
    /\ e.ev = "return"
    /\ e.fn = "eval_ir_scope"
    /\ e.span = Append(span, 2)
    /\ e.r = r

\* C11: a Break that carries Label(l) ends the innermost enclosing Loop whose
\* label is l and no other: a loop without label or with another label
\* returns the same Break right after its body returned it, and the loop
\* labelled l stops right after its body returned it and completes (the
\* Break goes no further, the evaluation goes on after the loop).
C11_LabelledBreak ==
    pc = "done" =>
        \A j \in LabelledBreaks :
            LET e == interp.trace[j]
            IN  IF e.label = Label(e.by.b.label)
                THEN /\ interp.trace[j + 1].r.ok
                     /\ interp.trace[j - 1].ev = "pop"
                     /\ IsBodyReturn(interp.trace[j - 2], e.span, e.by)
                ELSE /\ interp.trace[j + 1].r = e.by
                     /\ IsBodyReturn(interp.trace[j - 1], e.span, e.by)

\* The places where a loop was left because its body raised a Break that
\* carries a value.
ValueBreaks ==
    {j \in DOMAIN interp.trace :
        /\ interp.trace[j].ev = "left"
        /\ ~interp.trace[j].by.ok
        /\ interp.trace[j].by.outcome = "Break"
        /\ interp.trace[j].by.b.b = "Value"}

\* C12: when the body of a Loop raises Break(_, Value(v)), a loop without
\* condition returns Ok(v) and a loop with a condition returns an Error.
C12_BreakWithValue ==
    pc = "done" =>
        \A j \in ValueBreaks :
            LET e == interp.trace[j]
            IN  IF e.conditional
                THEN /\ ~interp.trace[j + 1].r.ok
                     /\ interp.trace[j + 1].r.outcome = "Error"
                ELSE interp.trace[j + 1].r = Ok(e.by.b.value)

C12_Witness ==
    /\ pc = "done"
    /\ ir.kind = "Loop"
    /\ ir.condition # NoCondition
    /\ ~result.ok
    /\ result.outcome = "Error"
    /\ \E j \in ValueBreaks : interp.trace[j].span = <<>> /\ interp.trace[j].conditional

\* No budget.take of the evaluation failed.
BudgetSufficed ==
    \A i \in DOMAIN interp.trace : interp.trace[i].ev = "take" => interp.trace[i].ok

\* C13: with a budget that suffices, the Loop labelled "outer" without
\* condition whose body is a break with label "outer" and value Integer 7
\* evaluates to Integer 7.
C13_Scenario5 ==
    (pc = "done" /\ ir = Scenario5 /\ BudgetSufficed) => result = Ok(Integer(7))

C13_Witness ==
    /\ pc = "done"
    /\ ir = Scenario5
    /\ BudgetSufficed
    /\ result = Ok(Integer(7))

\* The budget units the evaluation has consumed.
Consumed == interp.seed - interp.budget

\* The calls of eval_ir_scope that are not made by eval_ir: the body of a
\* loop, the body of a branch, the default branch.
DirectScopes ==
    {i \in Returns({"eval_ir_scope"}) :
        ~(/\ i + 1 \in Returns({"eval_ir"})
          /\ interp.trace[i + 1].span = interp.trace[i].span)}

\* The number of nodes the evaluation has visited.
NodeVisits == Cardinality(Returns({"eval_ir"})) + Cardinality(DirectScopes)

\* C14 (as stated): a successful evaluation consumes one budget unit for every
\* node it visits, whatever the kinds of the nodes.
C14_OncePerNode ==
    (pc = "done" /\ result.ok) => Consumed = NodeVisits

\* C14 (amended): a successful evaluation consumes one budget unit for every
\* call of eval_ir and one more for every call of eval_ir_scope,
\* eval_ir_binary, eval_ir_decl, eval_ir_loop, eval_ir_set, eval_ir_assign
\* and eval_ir_template, so that a Scope, Binary, Decl, Loop, Set, Assign or
\* Template node reached through eval_ir costs two units.
C14_OncePerCall ==
    (pc = "done" /\ result.ok) =>
        Consumed = Cardinality(Returns({"eval_ir"}))
                     + Cardinality(Returns({"eval_ir_scope", "eval_ir_binary",
                                            "eval_ir_decl", "eval_ir_loop",
                                            "eval_ir_set", "eval_ir_assign",
                                            "eval_ir_template"}))

C14_Witness ==
    /\ pc = "done"
    /\ result.ok
    /\ ir.kind = "Scope"
    /\ Returns({"eval_ir_decl"}) # {}
    /\ Consumed > NodeVisits

\* The entries into eval_ir.
Entries == {i \in DOMAIN interp.trace : interp.trace[i].ev = "enter"}

\* The budget exhausted Error reported at a span.
BudgetExceeded(span) == Error(span, "constant evaluation budget exceeded")

\* C15: the first thing eval_ir does on every entry is to charge the budget,
\* before a child is evaluated, a scope pushed or a binding written; the
\* remaining budget at an entry is strictly below the budget at every earlier
\* entry and a visit that was charged returns with less budget than it was
\* entered with; when the charge fails eval_ir returns the Error at once,
\* having evaluated no child.
C15_ChargedFirst ==
    pc = "done" =>
        /\ \A i \in Entries :
              /\ i + 1 \in DOMAIN interp.trace
              /\ interp.trace[i + 1].ev = "take"
              /\ interp.trace[i + 1].span = interp.trace[i].span
              /\ interp.trace[i + 1].ok <=> interp.trace[i].budget > 0
              /\ ~interp.trace[i + 1].ok =>
                    /\ i + 2 \in Returns({"eval_ir"})
                    /\ interp.trace[i + 2].span = interp.trace[i].span
                    /\ interp.trace[i + 2].r = BudgetExceeded(interp.trace[i].span)
                    /\ interp.trace[i + 2].exit = interp.trace[i + 2].entry
        /\ \A i, j \in Entries : i < j => interp.trace[j].budget < interp.trace[i].budget
        /\ \A i \in Returns({"eval_ir"}) :
              /\ interp.trace[i].after <= interp.trace[i].before
              /\ interp.trace[i].before > 0 => interp.trace[i].after < interp.trace[i].before
              /\ interp.trace[i].before = 0 =>
                    interp.trace[i].r = BudgetExceeded(interp.trace[i].span)
        /\ Cardinality(Entries) = Cardinality(Returns({"eval_ir"}))

\* A child that is not evaluated because the charge of its visit fails, after
\* visits that were charged.
C15_Witness ==
    /\ pc = "done"
    /\ \E i \in Entries :
          /\ interp.trace[i].span # <<>>
          /\ interp.trace[i].budget = 0
          /\ i + 2 \in Returns({"eval_ir"})
    /\ \E i \in Returns({"eval_ir"}) :
          interp.trace[i].r.ok /\ interp.trace[i].after < interp.trace[i].before

\* The loops of Programs that neither break nor fail: no condition or the
\* condition true, and a body of declarations and values, the empty Scope
\* included.
EndlessLoops ==
    {l \in Loops1 :
        /\ l.condition \in {NoCondition, IrConditionIr(IrValue(Bool(TRUE)))}
        /\ l.body.instructions \in {<<>>, <<IrDecl("x", IrValue(Integer(1)))>>}
        /\ l.body.last \in {NoIr, IrValue(Unit), IrValue(Bool(TRUE)), IrValue(Integer(7))}}

\* The charges made, by their success.
Takes(ok) ==
    {i \in DOMAIN interp.trace : interp.trace[i].ev = "take" /\ interp.trace[i].ok = ok}

\* The evaluations of the body of the root loop.
Iterations ==
    {i \in Returns({"eval_ir_scope"}) : interp.trace[i].span = <<2>>}

\* C16: every evaluation ends, having made no more successful charges than
\* the budget it was seeded with and at most one failed charge; a loop without
\* a condition, or with a condition that is always true, whose body never
\* breaks ends with the budget exhausted Error after at most as many
\* iterations as the budget has units.
C16_Terminates ==
    pc = "done" =>
        /\ Cardinality(Takes(TRUE)) = Consumed
        /\ Consumed <= interp.seed
        /\ Cardinality(Takes(FALSE)) <= 1
        /\ ir \in EndlessLoops =>
              /\ result.outcome = "Error"
              /\ result.msg = "constant evaluation budget exceeded"
              /\ interp.budget = 0
              /\ Cardinality(Takes(FALSE)) = 1
              /\ Cardinality(Iterations) <= interp.seed
              /\ \A i \in Iterations :
                    interp.trace[i].r.ok => interp.trace[i].after < interp.trace[i].before

C16_Witness ==
    /\ pc = "done"
    /\ ir = IrLoop(NoLabel, NoCondition, IrScope(<<>>, NoIr))
    /\ interp.seed = MaxBudget
    /\ Cardinality(Iterations) >= 3
    /\ result = BudgetExceeded(result.span)

\* The matches eval_ir_binary has made on the values of its operands.
Matches == {i \in DOMAIN interp.trace : interp.trace[i].ev = "binary"}

FloatOps == {"Add", "Sub", "Mul", "Div", "Lt", "Lte", "Eq", "Gt", "Gte"}

\* The kinds of operands and the operators the table of the claim lists.
Listed(e) ==
    \/ e.a.t = "Integer" /\ e.b.t = "Integer" /\ e.op \in IrBinaryOp
    \/ e.a.t = "Float" /\ e.b.t = "Float" /\ e.op \in FloatOps
    \/ e.a.t = "String" /\ e.b.t = "String" /\ e.op = "Add"

\* C17: eval_ir_binary returns a value only for two Integers, for two Floats
\* with an operator other than a shift and for two Strings with Add; two
\* Floats with such an operator always give a value, a Float for the
\* arithmetic and a Bool for the comparisons, and two Strings the
\* concatenation; every other combination gives NotConst at the span of the
\* Binary node, never an Error.
C17_BinaryTable ==
    pc = "done" =>
        \A i \in Matches :
            LET e == interp.trace[i]
            IN  /\ e.r.ok => Listed(e)
                /\ ~Listed(e) => e.r = NotConst(e.span)
                /\ (Listed(e) /\ ~e.r.ok) => e.r.outcome = "Error"
                /\ (Listed(e) /\ e.a.t = "Float") =>
                      /\ e.r.ok
                      /\ e.r.value.t = (IF e.op \in {"Add", "Sub", "Mul", "Div"}
                                        THEN "Float" ELSE "Bool")
                /\ (Listed(e) /\ e.a.t = "String" /\ e.r.ok) =>
                      /\ e.r.value.t = "String"
                      /\ e.r.value.string = e.a.string \o e.b.string
                /\ i + 1 \in Returns({"eval_ir_binary"})
                /\ interp.trace[i + 1].r = e.r
                /\ interp.trace[i + 1].span = e.span

\* A shift of two Floats is not constant.
C17_Witness ==
    /\ pc = "done"
    /\ ir = IrBinary("Shl", IrValue(Float(F64(FALSE, 2, 1))), IrValue(Float(F64(FALSE, 0, 1))))
    /\ Matches # {}
    /\ result = NotConst(<<>>)

\* The divisions of an Integer by an Integer.
Divisions ==
    {i \in Matches :
        /\ interp.trace[i].op = "Div"
        /\ interp.trace[i].a.t = "Integer"
        /\ interp.trace[i].b.t = "Integer"}

\* C18: the division of an Integer a by the Integer 0 is the Error "division
\* by zero" at the span of the Binary node; the division by an Integer b other
\* than 0 is the Integer q with a = q * b + r, where r is smaller than b in
\* magnitude and has the sign of a.
C18_Division ==
    pc = "done" =>
        \A i \in Divisions :
            LET e == interp.trace[i]
                a == e.a.integer
                b == e.b.integer
            IN  IF b = 0
                THEN e.r = Error(e.span, "division by zero")
                ELSE /\ e.r.ok
                     /\ e.r.value.t = "Integer"
                     /\ LET r == a - e.r.value.integer * b
                        IN  /\ Abs(r) < Abs(b)
                            /\ r # 0 => (r < 0) = (a < 0)

C18_Witness ==
    /\ pc = "done"
    /\ ir = DivByZero
    /\ \E i \in Divisions :
          interp.trace[i].b.integer # 0 /\ interp.trace[i].r = Ok(Integer(0))
    /\ result = Error(<<2>>, "division by zero")

\* The shifts of an Integer by an Integer.
Shifts ==
    {i \in Matches :
        /\ interp.trace[i].op \in {"Shl", "Shr"}
        /\ interp.trace[i].a.t = "Integer"
        /\ interp.trace[i].b.t = "Integer"}

\* C19: a shift of an Integer a by an Integer b gives a value exactly when
\* 0 <= b <= U32Max, the largest value of the shift operand's type: a * 2^b
\* for Shl and the floor of a / 2^b for Shr; for any other b it is an Error
\* at the span of the right operand.
C19_ShiftOperand ==
    pc = "done" =>
        \A i \in Shifts :
            LET e == interp.trace[i]
                a == e.a.integer
                b == e.b.integer
            IN  /\ e.r.ok <=> (0 <= b /\ b <= Pow2(ShiftBits) - 1)
                /\ ~e.r.ok => e.r = Error(Append(e.span, 2),
                                          "cannot be converted to shift operand")
                /\ e.r.ok =>
                      /\ e.r.value.t = "Integer"
                      /\ e.op = "Shl" => e.r.value.integer = a * Pow2(b)
                      /\ e.op = "Shr" =>
                            /\ e.r.value.integer * Pow2(b) <= a
                            /\ a < (e.r.value.integer + 1) * Pow2(b)

C19_Witness ==
    /\ pc = "done"
    /\ ir = ShiftBoundary
    /\ \E i \in Shifts :
          /\ interp.trace[i].b.integer = Pow2(ShiftBits) - 1
          /\ interp.trace[i].r = Ok(Integer(Pow2(Pow2(ShiftBits) - 1)))
    /\ result = Error(<<2, 2>>, "cannot be converted to shift operand")

\* The evaluations of the condition of branch i of the root Branches node, of
\* its body, and of the default branch.
ConditionOf(i) ==
    {k \in DOMAIN interp.trace :
        interp.trace[k].ev = "condition" /\ interp.trace[k].span = <<2 * i - 1>>}

BodyOf(i) ==
    {k \in Returns({"eval_ir_scope"}) : interp.trace[k].span = <<2 * i>>}

Default ==
    {k \in Returns({"eval_ir_scope"}) : interp.trace[k].span = <<0>>}

\* The condition of branch i has been evaluated to the value v.
ConditionIs(i, v) ==
    \E k \in ConditionOf(i) : interp.trace[k].r = Ok(v)

\* C20: the conditions of a Branches node are evaluated in list order, each
\* at most once and only after every earlier condition was false; the body of
\* a branch is evaluated exactly when its condition is true and its result is
\* the result of the node, no later condition or body being evaluated; when
\* every condition is false the result is that of default_branch, or Unit
\* without one; a condition whose value is not a Bool makes the result the
\* Error "expected bool" at the condition's span.
C20_Branches ==
    (pc = "done" /\ ir.kind = "Branches") =>
        LET n == Len(ir.branches)
        IN  /\ \A i \in 1..n :
                  /\ Cardinality(ConditionOf(i)) <= 1
                  /\ Cardinality(BodyOf(i)) <= 1
                  /\ BodyOf(i) # {} <=> ConditionIs(i, Bool(TRUE))
                  /\ \A c \in ConditionOf(i), b \in BodyOf(i) :
                        /\ c < b
                        /\ result = interp.trace[b].r
                  /\ \A c \in ConditionOf(i) :
                        ~interp.trace[c].r.ok => result = interp.trace[c].r
                  /\ \A c \in Returns({"eval_ir"}) :
                        (/\ ir.branches[i][1].c = "Ir"
                         /\ interp.trace[c].span = <<2 * i - 1>>
                         /\ interp.trace[c].r.ok
                         /\ interp.trace[c].r.value.t # "Bool") =>
                            result = Error(<<2 * i - 1>>, "expected bool")
                  /\ \A j \in 1..n :
                        (i < j /\ ConditionOf(j) # {}) =>
                            /\ ConditionIs(i, Bool(FALSE))
                            /\ BodyOf(i) = {}
                            /\ \A c \in ConditionOf(i), d \in ConditionOf(j) : c < d
            /\ Cardinality(Default) <= 1
            /\ Default # {} <=>
                  /\ ir.default_branch # NoIr
                  /\ \A i \in 1..n : ConditionIs(i, Bool(FALSE))
            /\ \A d \in Default : result = interp.trace[d].r
            /\ ((\A i \in 1..n : ConditionIs(i, Bool(FALSE))) /\ ir.default_branch = NoIr) =>
                  result = Ok(Unit)

\* The second of two branches is taken and the default branch is not.
C20_Witness ==
    /\ pc = "done"
    /\ ir \in Branches2
    /\ ir.default_branch # NoIr
    /\ ConditionIs(1, Bool(FALSE))
    /\ ConditionIs(2, Bool(TRUE))
    /\ BodyOf(2) # {}
    /\ Default = {}
    /\ result = Ok(Integer(2))

\* In the evaluation of a root Loop: the clearings of the current frame, the
\* evaluations of the condition and of the body, and the frame of the loop.
Clears ==
    {i \in DOMAIN interp.trace :
        interp.trace[i].ev = "clear" /\ interp.trace[i].span = <<1>>}

Conditions1 ==
    {i \in DOMAIN interp.trace :
        interp.trace[i].ev = "condition" /\ interp.trace[i].span = <<1>>}

LoopFrame == interp.trace[Len(interp.trace)].entry + 1

\* The number of the events of a set before the event i.
Before(S, i) == Cardinality({j \in S : j < i})

\* C21: in a Loop with a condition every iteration clears the loop's own
\* frame, then evaluates the condition, then evaluates the body, the body only
\* when the condition was true; when the condition is false nothing more is
\* evaluated and the loop evaluates to Unit.
C21_ConditionalLoop ==
    (pc = "done" /\ ir.kind = "Loop" /\ ir.condition # NoCondition) =>
        /\ \A c \in Clears :
              /\ interp.trace[c].depth = LoopFrame
              /\ Before(Conditions1, c) = Before(Clears, c)
              /\ Before(Iterations, c) = Before(Clears, c)
        /\ \A k \in Conditions1 : Before(Clears, k) = Before(Conditions1, k) + 1
        /\ \A b \in Iterations :
              /\ Before(Conditions1, b) = Before(Iterations, b) + 1
              /\ \A k \in Conditions1 : k < b => interp.trace[k].r = Ok(Bool(TRUE))
        /\ \A k \in Conditions1 :
              interp.trace[k].r = Ok(Bool(FALSE)) =>
                  /\ \A j \in Clears \cup Conditions1 \cup Iterations : j <= k
                  /\ result = Ok(Unit)

\* The evaluations of component i of the root Template node.
ComponentOf(i) ==
    {k \in Returns({"eval_ir"}) : interp.trace[k].span = <<i>>}

\* The rendering of the values the templates of the model are given.
Rendering(v) ==
    CASE v = Integer(42) -> "42"
      [] v = Integer(0 - 3) -> "-3"
      [] v = Integer(0) -> "0"
      [] v = Float(F64(FALSE, 2, 1)) -> "2.0"
      [] v = Float(F64(TRUE, 1, 2)) -> "-0.5"
      [] v = Float(NaN) -> "NaN"
      [] v = Bool(TRUE) -> "true"
      [] v = Bool(FALSE) -> "false"
      [] v.t = "String" -> v.string

Rendered == {"Integer", "Float", "Bool", "String"}

\* The string of the components from i on, for the values they were given.
RECURSIVE Concatenation(_, _)
Concatenation(components, i) ==
    IF i > Len(components) THEN ""
    ELSE (IF components[i].c = "String"
          THEN components[i].string
          ELSE Rendering(interp.trace[CHOOSE k \in ComponentOf(i) : TRUE].r.value))
            \o Concatenation(components, i + 1)

\* Component i is a literal chunk, or a nested Ir whose value is rendered and,
\* for a String, can be borrowed.
Renders(i) ==
    \/ ir.components[i].c = "String"
    \/ \E k \in ComponentOf(i) :
          /\ interp.trace[k].r.ok
          /\ interp.trace[k].r.value.t \in Rendered
          /\ interp.trace[k].r.value.t = "String" => interp.trace[k].r.value.access <= 0

\* C22: the nested Irs of a Template are evaluated in component order, each
\* once and only when every earlier component renders; when all of them render
\* the result is a String in a new cell, the concatenation in component order
\* of the literal chunks and of the renderings, the empty String for no
\* component; a nested Ir whose value is Unit, a Vec, a Tuple or an Object
\* makes the result NotConst at the span of that component.
C22_Template ==
    (pc = "done" /\ ir.kind = "Template" /\ Takes(FALSE) = {}) =>
        LET n == Len(ir.components)
        IN  /\ \A i \in 1..n :
                  /\ Cardinality(ComponentOf(i)) <= 1
                  /\ ComponentOf(i) # {} =>
                        /\ ir.components[i].c = "Ir"
                        /\ \A j \in 1..(i - 1) : Renders(j)
                  /\ \A j \in 1..n :
                        \A k \in ComponentOf(i), l \in ComponentOf(j) : i < j => k < l
                  /\ \A k \in ComponentOf(i) :
                        LET r == interp.trace[k].r
                        IN  /\ ~r.ok => result = r
                            /\ (r.ok /\ r.value.t \notin Rendered) =>
                                  /\ r.value.t \in {"Unit", "Vec", "Tuple", "Object"}
                                  /\ result = NotConst(<<i>>)
            /\ (\A i \in 1..n : Renders(i)) =>
                  result = Ok(String(Concatenation(ir.components, 1)))
            /\ n = 0 => result = Ok(String(""))

C22_Witness ==
    /\ pc = "done"
    /\ ir = Scenario6
    /\ ComponentOf(2) # {}
    /\ result = Ok(String("x=42"))

\* The Result r of a node, as the Result of the same node when it is the last
\* of a Scope: the spans are those of the node one level down.
AsLast(r) == IF r.ok THEN r ELSE [r EXCEPT !.span = <<1>> \o @]

\* The last event of a trace: the return of eval_ir on the root.
RootReturn(st) == st.trace[Len(st.trace)]

Calls ==
    {k \in DOMAIN interp.trace :
        interp.trace[k].ev = "call" /\ interp.trace[k].span = <<>>}

\* Child i of the root was evaluated and gave a value.
Evaluated(i) == \E k \in ComponentOf(i) : interp.trace[k].r.ok

\* The children of the root are evaluated from the left, each at most once
\* and only when every child before it gave a value; the first child that
\* fails gives the Result of the root.
LeftToRight(n) ==
    \A i \in 1..n :
        /\ Cardinality(ComponentOf(i)) <= 1
        /\ ComponentOf(i) # {} => \A j \in 1..(i - 1) : Evaluated(j)
        /\ \A j \in 1..n :
              \A k \in ComponentOf(i), l \in ComponentOf(j) : i < j => k < l
        /\ \A k \in ComponentOf(i) : ~interp.trace[k].r.ok => result = interp.trace[k].r

\* C25: the arguments of a Call are evaluated from the left; call_const_fn is
\* invoked once, after the last argument and with the values of the arguments
\* in order, when every argument gave a value, and is not invoked when one
\* failed, the arguments after it not being evaluated; the rhs of a Binary is
\* evaluated after the lhs and only when the lhs gave a value.
C25_LeftToRight ==
    /\ (pc = "done" /\ ir.kind = "Call") =>
          LET n == Len(ir.args)
          IN  /\ LeftToRight(n)
              /\ Cardinality(Calls) <= 1
              /\ Calls # {} <=>
                    /\ \E k \in Returns({"eval_ir_call"}) : interp.trace[k].span = <<>>
                    /\ \A i \in 1..n : Evaluated(i)
              /\ \A c \in Calls :
                    /\ \A i \in 1..n : \A k \in ComponentOf(i) : k < c
                    /\ interp.trace[c].args =
                          [i \in 1..n |->
                              interp.trace[CHOOSE k \in ComponentOf(i) : TRUE].r.value]
    /\ (pc = "done" /\ ir.kind = "Binary") => LeftToRight(2)

\* The second argument is not evaluated and the function is not called,
\* because the first argument fails.
C25_Witness ==
    /\ pc = "done"
    /\ ir = IrCall("first", <<IrBinary("Div", IrValue(Integer(1)), IrValue(Integer(0))),
                             IrValue(Integer(1))>>)
    /\ ComponentOf(1) # {}
    /\ ComponentOf(2) = {}
    /\ Calls = {}
    /\ result = Error(<<1>>, "division by zero")

\* The returns of eval_ir, for a node below the root, with one of the
\* outcomes.
Raised(outcomes) ==
    {j \in Returns({"eval_ir"}) :
        /\ interp.trace[j].span # <<>>
        /\ ~interp.trace[j].r.ok
        /\ interp.trace[j].r.outcome \in outcomes}

\* The return of eval_ir that follows the return j: when nothing is evaluated
\* after j, it is the return of the node that encloses the node of j.
Enclosing(j) ==
    CHOOSE k \in Returns({"eval_ir"}) :
        k > j /\ \A l \in Returns({"eval_ir"}) : l > j => k <= l

\* s is the span of a node that encloses the node of span t.
Encloses(s, t) == Len(s) < Len(t) /\ SubSeq(t, 1, Len(s)) = s

\* The places between j and k where the loop of k was left because of a
\* Break of its body.
Consumes(j, k) ==
    {l \in (j + 1)..(k - 1) :
        /\ interp.trace[l].ev = "left"
        /\ interp.trace[l].span = interp.trace[k].span
        /\ interp.trace[l].how \in {"Inherent", "Label", "Value"}}

\* C26: when a node below the root gives Break or NotConst, no other node is
\* evaluated before the enclosing node returns; the enclosing node returns
\* the same Result unless it is a Loop left by the Break of its body, and such
\* a Loop gives neither Error nor NotConst, except a Loop with a condition
\* that was given Break(Value).
C26_BreakPropagation ==
    pc = "done" =>
        \A j \in Raised({"Break", "NotConst"}) :
            LET k == Enclosing(j)
            IN  /\ Encloses(interp.trace[k].span, interp.trace[j].span)
                /\ \A l \in (j + 1)..(k - 1) : interp.trace[l].ev # "enter"
                /\ Consumes(j, k) = {} => interp.trace[k].r = interp.trace[j].r
                /\ \A l \in Consumes(j, k) :
                      /\ interp.trace[j].r.outcome = "Break"
                      /\ OutcomeOf(interp.trace[k].r) \in {"Error", "NotConst"} =>
                            interp.trace[l].conditional /\ interp.trace[l].how = "Value"

\* In the evaluation of a root Branches node: the frames pushed at the depth
\* of the node, which are the frames of its branches and of its default
\* branch.
BranchFrames ==
    {p \in DOMAIN interp.trace :
        /\ interp.trace[p].ev = "push"
        /\ interp.trace[p].guard = interp.trace[Len(interp.trace)].entry}

\* The frames pushed after the entry c of the trace.
PushedAfter(c) ==
    {p \in DOMAIN interp.trace : p > c /\ interp.trace[p].ev = "push"}

\* C27: the condition of branch i of a Branches node is evaluated in the i-th
\* frame pushed at the depth of the node; when the condition is false, a match
\* that fails included, the pop with the guard of that frame comes next, and
\* whatever is evaluated afterwards, a later branch or the default branch,
\* starts at the depth of the node with the names that were bound when the
\* node was entered; when the node gives a value the depth is that depth.
C27_BranchFrames ==
    (pc = "done" /\ ir.kind = "Branches") =>
        LET depth == interp.trace[Len(interp.trace)].entry
        IN  /\ \A i \in 1..Len(ir.branches) : \A c \in ConditionOf(i) :
                  /\ Before(BranchFrames, c) = i
                  /\ interp.trace[c].r = Ok(Bool(FALSE)) =>
                        /\ interp.trace[c + 1].ev = "pop"
                        /\ interp.trace[c + 1].guard = depth
                        /\ PushedAfter(c) # {} =>
                              /\ interp.trace[c + 1].ok
                              /\ interp.trace[c + 1].depth = depth
                              /\ \E p \in BranchFrames : p \in {c + 2, c + 3}
            /\ \A p \in BranchFrames, q \in BranchFrames :
                  interp.trace[p].names = interp.trace[q].names
            /\ result.ok => interp.trace[Len(interp.trace)].exit = depth

\* The first condition declares y and is false; the second condition reads y
\* and does not find it.
C27_Witness ==
    /\ pc = "done"
    /\ ir = IrBranches(<<<<IrConditionIr(IrCall("first", <<IrValue(Bool(FALSE)),
                                                           IrDecl("y", IrValue(Integer(5)))>>)),
                           IrScope(<<>>, IrName("y"))>>,
                         <<IrConditionIr(IrBinary("Eq", IrName("y"), IrValue(Integer(5)))),
                           IrScope(<<>>, IrName("y"))>>>>, NoIr)
    /\ ConditionIs(1, Bool(FALSE))
    /\ Cardinality(BranchFrames) = 2
    /\ result = Error(<<3, 1>>, "missing local")

====
